---- MODULE Spec2Model ----
(***************************************************************************)
(* EchoLens simulation supervisor: process lifecycle (SimulationRunner),   *)
(* incremental ingestion of the per-platform actions.jsonl logs, and the   *)
(* file-mailbox IPC between SimulationIPCClient and the worker's           *)
(* ParallelIPCHandler.                                                     *)
(***************************************************************************)
EXTENDS Integers, Sequences, FiniteSets, TLC

\* ------------------------------------------------------------------ bounds
\* action lines one platform of a worker logs at most
MaxActions == 1

\* send_command calls (command ids) of one client
MaxCommands == 2
\* largest timeout of a send_command call, in clock ticks
MaxTimeout == 4
\* largest poll_interval of a send_command call, in clock ticks
MaxPoll == 2
\* shutdown signals delivered to the supervisor's host process
MaxSignals == 2
\* cleanup_simulation_logs calls per run
MaxCleanups == 1
\* rounds of the worker's main loop (after round 0)
MaxRounds == 1
\* action lines one platform logs when both platforms run
MaxRoundActions == 2
\* action lines a platform logs when the buffer of recent actions is filled
MaxIngest == 52
\* start_simulation calls per run
MaxStarts == 2
MaxAnyLines == 4
MaxReadErrors == 1
MaxAgents == 2
MaxBatch == 2

\* ---------------------------------------------------------------- universe
CommandIds == 1..MaxCommands
\* CommandType
CommandTypes == {"interview", "batch_interview", "close_env"}
Platforms == {"twitter", "reddit"}
Runs == {"sim_1", "sim_2"}
\* the run the single-run specifications drive
OneRun == {"sim_1"}
\* platform argument of start_simulation
PlatformArgs == {"twitter", "reddit", "parallel"}

\* ------------------------------------------------------------ log contents
\* A log line is json.dumps(entry) + "\n".  Its bytes are modelled as the
\* first half of the JSON text, the second half, and the newline.
NL == <<"nl", 0>>
LineBytes(kind) == << <<kind, 1>>, <<kind, 2>>, NL >>

EventTypes == {"simulation_start", "simulation_end"}

\* index of the first newline of bytes, 0 when there is none
RECURSIVE FirstNL(_, _)
FirstNL(bytes, i) ==
    IF i > Len(bytes) THEN 0
    ELSE IF bytes[i] = NL THEN i
    ELSE FirstNL(bytes, i + 1)

\* "for line in f": the text from the offset to end-of-file cut at newlines;
\* the last piece is an unterminated line when the file does not end in "\n"
RECURSIVE SplitLines(_)
SplitLines(bytes) ==
    IF bytes = <<>> THEN <<>>
    ELSE LET i == FirstNL(bytes, 1) IN
         IF i = 0 THEN << bytes >>
         ELSE << SubSeq(bytes, 1, i - 1) >>
                \o SplitLines(SubSeq(bytes, i + 1, Len(bytes)))

\* json.loads of a stripped line: the entry's kind when the text is one whole
\* JSON object, JSONDecodeError for any other piece of a line
JsonLoads(seg) ==
    IF Len(seg) = 2 /\ seg[1][1] = seg[2][1] /\ seg[1][2] = 1 /\ seg[2][2] = 2
    THEN seg[1][1]
    ELSE "JSONDecodeError"

\* ---------------------------------------------------------------- variables
VARIABLES
    run_states,    \* _run_states: run -> <<>> or <<SimulationRunState>>
    state_file,    \* run_state.json: run -> <<>> or <<snapshot>>
    processes,     \* _processes: the runs with a Popen handle
    platform_arg,  \* the platform argument start_simulation was called with
    proc,          \* the worker's OS process: "none", "alive", "exited"
    returncode,    \* exit code of an exited worker
    shutdown_event,\* the worker's _shutdown_event, and the signals it got
    wphase,        \* worker, per platform: "off", "init", "started", "ended"
    log_data,      \* {platform}/actions.jsonl: the bytes readers can see
    pend,          \* bytes of the line being appended, not yet visible
    mpc,           \* monitor thread's position in _monitor_simulation
    position,      \* monitor's twitter_position / reddit_position
    spc,           \* position of the thread inside stop_simulation
    cmd_files,     \* ipc_commands/{id}.json: command type, or "none"
    resp_files,    \* ipc_responses/{id}.json: "none", "partial", or its status
    next_id,       \* number of command ids (uuid4) drawn so far
    cpc,           \* client's position in send_command
    ccmd,          \* command_id of the client's current send_command
    ctimeout,      \* timeout of the current send_command
    cpoll,         \* poll_interval of the current send_command
    celapsed,      \* time.time() - start_time of the current send_command
    cresponse,     \* the IPCResponse send_command returned, <<>> when none
    timed_out,     \* command ids whose send_command raised TimeoutError
    hpc,           \* worker's position in process_commands
    hcmd,          \* command the worker's handler took from poll_command
    executed,      \* command ids the worker has executed
    cwake,         \* client: the clock value at which its time.sleep ends
    answered_at,   \* client's clock when the response to its pending command
                   \* was complete on disk, -1 if it was not
    cleanup_done,  \* SimulationRunner._cleanup_done
    hstack,        \* host main thread: the shutdown-hook calls in progress
    host,          \* supervisor host: "running", "exiting", "atexit", "exited"
    signals,       \* shutdown signals delivered to the host so far
    hook_owned,    \* runs whose worker was alive when the hook first ran
    start_log,     \* per run: outcome of each start_simulation call, in order
    env_status,    \* env_status.json: "missing", "partial" or its status
    wmain,         \* worker's position in main: "sim", "write_alive", "waiting",
                   \* "write_stopped", "closing"
    sim_files,     \* further files present in the run directory
    cleanup_log,   \* per run: result of each cleanup_simulation_logs call
    round_state,   \* the round fields and recent_actions of a SimulationRunState
    wround,        \* per platform: the worker's position in its round loop
    round_log,     \* per platform: the lines of actions.jsonl not yet ingested
    ingested,      \* every action ingested so far, newest first
    writers,       \* <<thread, run>>: the thread is inside the "with open" block
                   \* of _save_run_state for run_state.json of the run
    stdout_files,  \* SimulationRunner._stdout_files: runs whose simulation.log
                   \* handle is registered and open
    read_errors,   \* number of _read_action_log passes that ended in its
                   \* except clause
    batch,         \* <<>> or the latest handle_batch_interview call: its
                   \* arguments, the interviews issued and the results
    earlier        \* per run: <<>> or the worker, monitor thread and state
                   \* object of the launch that a later start displaced

logVars == <<wphase, log_data, pend>>
procVars == <<proc, returncode, shutdown_event>>
supVars == <<run_states, state_file, processes, platform_arg>>
ipcVars == <<cmd_files, resp_files, next_id, cpc, ccmd, ctimeout, cpoll,
             celapsed, cresponse, timed_out, hpc, hcmd, executed, cwake, answered_at>>
hookVars == <<cleanup_done, hstack, host, signals, hook_owned>>
envVars == <<env_status, wmain, sim_files>>
roundVars == <<round_state, wround, round_log, ingested>>
callVars == <<start_log, envVars, cleanup_log, roundVars, read_errors, batch, earlier, writers, stdout_files>>
vars == <<run_states, state_file, processes, platform_arg, proc, returncode, shutdown_event,
          wphase, log_data, pend, mpc, position, spc, ipcVars, hookVars, callVars>>

\* os.path.exists(actions.jsonl): open(path, 'a') creates the file at the
\* first append, which is log_simulation_start
LogExists(r, p) == log_data[r][p] # <<>>

\* the shared SimulationRunState object of run r
St(r) == run_states[r][1]

\* get_run_state: the cached object, else the one loaded from run_state.json
GetRunState(r) ==
    IF run_states[r] # <<>> THEN run_states[r] ELSE state_file[r]

\* SimulationRunState(simulation_id, runner_status=STARTING, ...)
NewState ==
    [runner_status |-> "starting",
     running |-> [p \in Platforms |-> FALSE],
     completed |-> [p \in Platforms |-> FALSE],
     actions_count |-> [p \in Platforms |-> 0],
     error |-> "",
     process_pid |-> "none"]

Init ==
    /\ run_states = [r \in Runs |-> <<>>]
    /\ state_file = [r \in Runs |-> <<>>]
    /\ processes = {}
    /\ platform_arg = [r \in Runs |-> "none"]
    /\ proc = [r \in Runs |-> "none"]
    /\ returncode = [r \in Runs |-> 0]
    /\ shutdown_event = [r \in Runs |-> 0]
    /\ wphase = [r \in Runs |-> [p \in Platforms |-> "off"]]
    /\ log_data = [r \in Runs |-> [p \in Platforms |-> <<>>]]
    /\ pend = [r \in Runs |-> [p \in Platforms |-> <<>>]]
    /\ mpc = [r \in Runs |-> "none"]
    /\ position = [r \in Runs |-> [p \in Platforms |-> 0]]
    /\ spc = [r \in Runs |-> "idle"]
    /\ cmd_files = [c \in CommandIds |-> "none"]
    /\ resp_files = [c \in CommandIds |-> "none"]
    /\ next_id = 0
    /\ cpc = "idle"
    /\ ccmd = 0
    /\ ctimeout = 0
    /\ cpoll = 1
    /\ celapsed = 0
    /\ cresponse = <<>>
    /\ timed_out = {}
    /\ hpc = "idle"
    /\ hcmd = 0
    /\ executed = {}
    /\ cwake = 0
    /\ answered_at = -1
    /\ cleanup_done = FALSE
    /\ hstack = <<>>
    /\ host = "running"
    /\ signals = 0
    /\ hook_owned = {}
    /\ start_log = [r \in Runs |-> <<>>]
    /\ env_status = [r \in Runs |-> "missing"]
    /\ wmain = [r \in Runs |-> "sim"]
    /\ sim_files = [r \in Runs |-> {}]
    /\ cleanup_log = [r \in Runs |-> <<>>]
    /\ round_state = [current_round |-> 0,
                      platform_round |-> [p \in Platforms |-> 0],
                      recent_actions |-> <<>>]
    /\ wround = [p \in Platforms |-> [round |-> 0, phase |-> "before", n |-> 0]]
    /\ round_log = [p \in Platforms |-> <<>>]
    /\ ingested = <<>>
    /\ writers = {}
    /\ stdout_files = {}
    /\ read_errors = 0
    /\ batch = <<>>
    /\ earlier = [r \in Runs |-> <<>>]

\* ------------------------------------------------------------ start
\* the platforms start_simulation marks running for its platform argument
Declared(platform) ==
    IF platform = "parallel" THEN Platforms ELSE {platform}

\* files of the run directory written by the preparation step
ConfigFile == "simulation_config.json"
ProfileFiles == {"twitter_profiles.csv", "reddit_profiles.json"}
\* main_log_path: the worker's stdout/stderr
MainLog == "simulation.log"

\* SimulationManager.prepare_simulation: the profile files and
\* simulation_config.json are written into the run directory
Prepare(r) ==
    /\ ConfigFile \notin sim_files[r]
    /\ sim_files' = [sim_files EXCEPT ![r] = @ \cup {ConfigFile} \cup ProfileFiles]
    /\ UNCHANGED <<run_states, state_file, processes, platform_arg, procVars, logVars,
                   mpc, position, spc, ipcVars, hookVars, start_log, env_status, cleanup_log, roundVars, read_errors, batch, earlier, writers, stdout_files, wmain>>

\* a duplicate check that only looks for RUNNING
AlreadyRunning_OnlyRunning(existing) ==
    existing # <<>> /\ existing[1].runner_status = "running"

\* existing.runner_status in [RUNNING, STARTING]
AlreadyRunning(existing) ==
    existing # <<>> /\ existing[1].runner_status \in {"running", "starting"}

\* the checks without the one for simulation_config.json
StartCheck_NoConfigCheck(existing, files, graph_update, graph_id, script_exists) ==
    IF AlreadyRunning(existing) THEN "AlreadyRunning"
    ELSE IF graph_update /\ ~graph_id THEN "GraphIdMissing"
    ELSE IF ~script_exists THEN "ScriptMissing"
    ELSE "launch"

\* the checks of start_simulation in the order of the code: what the call
\* raises, or "launch" when it goes on to start the worker
StartCheck(existing, files, graph_update, graph_id, script_exists) ==
    IF AlreadyRunning(existing) THEN "AlreadyRunning"
    ELSE IF ConfigFile \notin files THEN "ConfigMissing"
    ELSE IF graph_update /\ ~graph_id THEN "GraphIdMissing"
    ELSE IF ~script_exists THEN "ScriptMissing"
    ELSE "launch"

\* the outcomes of start_simulation that are a ValueError for an absent input
MissingInput == {"ConfigMissing", "GraphIdMissing", "ScriptMissing"}

\* The model holds one worker and one monitor thread per run: a start that
\* replaces the state object is taken only when the run's earlier worker has
\* exited and its monitor thread has ended.
Quiescent(r) == proc[r] # "alive" /\ mpc[r] \in {"none", "done"}

\* start_simulation succeeds: state created and saved as STARTING, worker
\* launched in a new session, RUNNING saved, monitor thread started.
\* launched: the platforms whose simulation the worker really enters (a
\* platform whose profile file is missing returns before logging anything).
StartSimulation(r, platform, launched) ==
    /\ Len(start_log[r]) < MaxStarts
    /\ StartCheck(GetRunState(r), sim_files[r], FALSE, FALSE, TRUE) = "launch"
    /\ Quiescent(r)
    /\ launched \subseteq Declared(platform)
    /\ LET st == [NewState EXCEPT
                    !.runner_status = "running",
                    !.running = [p \in Platforms |-> p \in Declared(platform)],
                    !.process_pid = "pid"]
       IN /\ run_states' = [run_states EXCEPT ![r] = <<st>>]
          /\ state_file' = [state_file EXCEPT ![r] = <<st>>]
    /\ processes' = processes \cup {r}
    /\ stdout_files' = stdout_files \cup {r}
    /\ platform_arg' = [platform_arg EXCEPT ![r] = platform]
    /\ proc' = [proc EXCEPT ![r] = "alive"]
    /\ shutdown_event' = [shutdown_event EXCEPT ![r] = 0]
    /\ wphase' = [wphase EXCEPT ![r] =
                    [p \in Platforms |-> IF p \in launched THEN "init" ELSE "off"]]
    /\ wmain' = [wmain EXCEPT ![r] = "sim"]
    /\ mpc' = [mpc EXCEPT ![r] = "poll"]
    /\ position' = [position EXCEPT ![r] = [p \in Platforms |-> 0]]
    /\ start_log' = [start_log EXCEPT ![r] = Append(@, "started")]
    /\ sim_files' = [sim_files EXCEPT ![r] = @ \cup {MainLog}]
    /\ UNCHANGED <<ipcVars, hookVars, returncode, log_data, pend, spc, env_status, cleanup_log, roundVars, read_errors, batch, earlier, writers>>

\* the first start_simulation call for a run
FirstStart(r, platform, launched) ==
    /\ start_log[r] = <<>>
    /\ StartSimulation(r, platform, launched)

\* start_simulation raises ValueError at the first check: the run is
\* STARTING or RUNNING (get_run_state caches a state loaded from the file)
StartAlreadyRunning(r) ==
    /\ Len(start_log[r]) < MaxStarts
    /\ \E gu, gi, se \in BOOLEAN :
          StartCheck(GetRunState(r), sim_files[r], gu, gi, se) = "AlreadyRunning"
    /\ run_states' = [run_states EXCEPT ![r] = GetRunState(r)]
    /\ start_log' = [start_log EXCEPT ![r] = Append(@, "AlreadyRunning")]
    /\ UNCHANGED <<state_file, processes, platform_arg, procVars, logVars, mpc,
                   position, spc, ipcVars, hookVars, envVars, cleanup_log, roundVars, read_errors, batch, earlier, writers, stdout_files>>

\* start_simulation raises ValueError: simulation_config.json does not exist
StartConfigMissing(r) ==
    /\ Len(start_log[r]) < MaxStarts
    /\ \E gu, gi, se \in BOOLEAN :
          StartCheck(GetRunState(r), sim_files[r], gu, gi, se) = "ConfigMissing"
    /\ run_states' = [run_states EXCEPT ![r] = GetRunState(r)]
    /\ start_log' = [start_log EXCEPT ![r] = Append(@, "ConfigMissing")]
    /\ UNCHANGED <<state_file, processes, platform_arg, procVars, logVars, mpc,
                   position, spc, ipcVars, hookVars, envVars, cleanup_log, roundVars, read_errors, batch, earlier, writers, stdout_files>>

\* start_simulation raises ValueError: enable_graph_memory_update without a
\* graph_id.  The STARTING state has been saved before the check.
StartGraphIdMissing(r) ==
    /\ Len(start_log[r]) < MaxStarts
    /\ \E se \in BOOLEAN :
          StartCheck(GetRunState(r), sim_files[r], TRUE, FALSE, se) = "GraphIdMissing"
    /\ Quiescent(r)
    /\ run_states' = [run_states EXCEPT ![r] = <<NewState>>]
    /\ state_file' = [state_file EXCEPT ![r] = <<NewState>>]
    /\ start_log' = [start_log EXCEPT ![r] = Append(@, "GraphIdMissing")]
    /\ UNCHANGED <<processes, platform_arg, procVars, logVars, mpc, position, spc,
                   ipcVars, hookVars, envVars, cleanup_log, roundVars, read_errors, batch, earlier, writers, stdout_files>>

\* the state object after "state.twitter_running = True" etc.
MarkDeclared(st, platform) ==
    [st EXCEPT !.running = [p \in Platforms |-> p \in Declared(platform)]]

\* start_simulation raises ValueError: the script of the platform does not
\* exist.  The STARTING state has been saved; the running flags are set on
\* the state object only.
StartScriptMissing(r, platform) ==
    /\ Len(start_log[r]) < MaxStarts
    /\ \E gu, gi \in BOOLEAN :
          StartCheck(GetRunState(r), sim_files[r], gu, gi, FALSE) = "ScriptMissing"
    /\ Quiescent(r)
    /\ run_states' = [run_states EXCEPT ![r] = <<MarkDeclared(NewState, platform)>>]
    /\ state_file' = [state_file EXCEPT ![r] = <<NewState>>]
    /\ start_log' = [start_log EXCEPT ![r] = Append(@, "ScriptMissing")]
    /\ UNCHANGED <<processes, platform_arg, procVars, logVars, mpc, position, spc,
                   ipcVars, hookVars, envVars, cleanup_log, roundVars, read_errors, batch, earlier, writers, stdout_files>>

\* an except block that records the error text only
MarkFailed_ErrorOnly(st, e) == [st EXCEPT !.error = e]

\* except Exception as e: state.runner_status = FAILED; state.error = str(e)
MarkFailed(st, e) == [st EXCEPT !.runner_status = "failed", !.error = e]

\* subprocess.Popen raises inside the try block: the state is marked FAILED
\* and saved, and the exception is raised again
StartLaunchFailure(r, platform) ==
    /\ Len(start_log[r]) < MaxStarts
    /\ StartCheck(GetRunState(r), sim_files[r], FALSE, FALSE, TRUE) = "launch"
    /\ Quiescent(r)
    /\ LET st == MarkFailed(MarkDeclared(NewState, platform), "OSError")
       IN /\ run_states' = [run_states EXCEPT ![r] = <<st>>]
          /\ state_file' = [state_file EXCEPT ![r] = <<st>>]
    /\ sim_files' = [sim_files EXCEPT ![r] = @ \cup {MainLog}]
    /\ start_log' = [start_log EXCEPT ![r] = Append(@, "LaunchFailure")]
    /\ UNCHANGED <<processes, platform_arg, procVars, logVars, mpc, position, spc,
                   ipcVars, hookVars, env_status, cleanup_log, roundVars, read_errors, batch, earlier, writers, stdout_files, wmain>>

\* the start_simulation calls that raise
StartFails(r) ==
    \/ StartAlreadyRunning(r)
    \/ StartConfigMissing(r)
    \/ StartGraphIdMissing(r)
    \/ \E a \in PlatformArgs : StartScriptMissing(r, a)
    \/ \E a \in PlatformArgs : StartLaunchFailure(r, a)

\* ------------------------------------------------------------ worker: logs
\* number of log_action calls of platform p's logger so far
ActionsLogged(r, p) ==
    Cardinality({i \in 1..Len(log_data[r][p]) : log_data[r][p][i] = <<"action", 1>>})

\* with open(log_path, 'a') as f: f.write(json.dumps(entry) + '\n').
\* A reader may see the line whole (n = 3) or only its first n bytes until
\* the rest of the write lands.
AppendLine(r, p, kind, n) ==
    /\ proc[r] = "alive"
    /\ pend[r][p] = <<>>
    /\ log_data' = [log_data EXCEPT ![r][p] = @ \o SubSeq(LineBytes(kind), 1, n)]
    /\ pend' = [pend EXCEPT ![r][p] = SubSeq(LineBytes(kind), n + 1, 3)]

\* PlatformActionLogger.log_simulation_start: the first append, creates the file
LogSimulationStart(r, p, n) ==
    /\ wphase[r][p] = "init"
    /\ AppendLine(r, p, "simulation_start", n)
    /\ wphase' = [wphase EXCEPT ![r][p] = "started"]
    /\ UNCHANGED <<ipcVars, callVars, hookVars, supVars, procVars, mpc, position, spc>>

\* PlatformActionLogger.log_action
LogAction(r, p, n) ==
    /\ wphase[r][p] = "started"
    /\ ActionsLogged(r, p) < MaxActions
    /\ AppendLine(r, p, "action", n)
    /\ UNCHANGED <<ipcVars, callVars, hookVars, supVars, procVars, wphase, mpc, position, spc>>

\* PlatformActionLogger.log_simulation_end, after the round loop (also when the
\* loop was left because _shutdown_event was set)
LogSimulationEnd(r, p, n) ==
    /\ wphase[r][p] = "started"
    /\ AppendLine(r, p, "simulation_end", n)
    /\ wphase' = [wphase EXCEPT ![r][p] = "ended"]
    /\ UNCHANGED <<ipcVars, callVars, hookVars, supVars, procVars, mpc, position, spc>>

\* the rest of a line that was visible only in part becomes visible
WriteRest(r, p) ==
    /\ proc[r] = "alive"
    /\ pend[r][p] # <<>>
    /\ log_data' = [log_data EXCEPT ![r][p] = @ \o pend[r][p]]
    /\ pend' = [pend EXCEPT ![r][p] = <<>>]
    /\ UNCHANGED <<ipcVars, callVars, hookVars, supVars, procVars, wphase, mpc, position, spc>>

\* The worker process ends.  Code 0: main() returned, which it does only after
\* every simulation it entered has logged simulation_end.  Code 1: a crash,
\* or sys.exit(1).
WorkerExit(r, code) ==
    /\ proc[r] = "alive"
    /\ \A p \in Platforms : pend[r][p] = <<>>
    /\ code = 0 => \A p \in Platforms : wphase[r][p] \in {"off", "ended"}
    /\ proc' = [proc EXCEPT ![r] = "exited"]
    /\ returncode' = [returncode EXCEPT ![r] = code]
    /\ UNCHANGED <<ipcVars, callVars, hookVars, supVars, shutdown_event, logVars, mpc, position, spc>>

\* ------------------------------------------------------------ ingestion
\* _check_all_platforms_completed; exists: the platforms whose actions.jsonl
\* exists at the time of the call
CheckAllPlatformsCompleted(st, exists) ==
    IF "twitter" \in exists /\ ~st.completed["twitter"] THEN FALSE
    ELSE IF "reddit" \in exists /\ ~st.completed["reddit"] THEN FALSE
    ELSE exists # {}

\* SimulationRunState.add_action
AddAction(st, p) ==
    [st EXCEPT !.actions_count[p] = @ + 1]

\* the body of the "for line in f" loop of _read_action_log for one line
ApplyLine(st, p, seg, exists) ==
    IF seg = <<>> THEN st
    ELSE LET d == JsonLoads(seg) IN
         IF d = "JSONDecodeError" THEN st
         ELSE IF d = "simulation_end" THEN
              LET s1 == [st EXCEPT !.completed[p] = TRUE, !.running[p] = FALSE] IN
              IF CheckAllPlatformsCompleted(s1, exists)
              THEN [s1 EXCEPT !.runner_status = "completed"]
              ELSE s1
         ELSE IF d \in EventTypes THEN st
         ELSE AddAction(st, p)

RECURSIVE ApplyLines(_, _, _, _)
ApplyLines(st, p, segs, exists) ==
    IF segs = <<>> THEN st
    ELSE ApplyLines(ApplyLine(st, p, Head(segs), exists), p, Tail(segs), exists)

\* _read_action_log: seek(position), apply every line up to end-of-file,
\* return f.tell()
ReadActionLog(st, p, data, pos, exists) ==
    [state |-> ApplyLines(st, p, SplitLines(SubSeq(data, pos + 1, Len(data))), exists),
     position |-> Len(data)]

\* ------------------------------------------------------------ monitor thread
ExistingLogs(r) == {p \in Platforms : LogExists(r, p)}

ReadPc(p) == IF p = "twitter" THEN "read_twitter" ELSE "read_reddit"
FinalPc(p) == IF p = "twitter" THEN "final_twitter" ELSE "final_reddit"

\* while process.poll() is None
MonitorPoll(r) ==
    /\ mpc[r] = "poll"
    /\ mpc' = [mpc EXCEPT ![r] =
                 IF proc[r] = "alive" THEN "read_twitter" ELSE "final_twitter"]
    /\ UNCHANGED <<ipcVars, callVars, hookVars, supVars, procVars, logVars, position, spc>>

\* one pass of the loop body over platform p's log:
\* if os.path.exists(log): position = _read_action_log(log, position, state, p)
MonitorRead(r, p) ==
    /\ mpc[r] = ReadPc(p)
    /\ LET res == ReadActionLog(St(r), p, log_data[r][p], position[r][p],
                                ExistingLogs(r))
       IN IF LogExists(r, p)
          THEN /\ run_states' = [run_states EXCEPT ![r] = <<res.state>>]
               /\ position' = [position EXCEPT ![r][p] = res.position]
          ELSE UNCHANGED <<run_states, position>>
    /\ mpc' = [mpc EXCEPT ![r] = IF p = "twitter" THEN "read_reddit" ELSE "save"]
    /\ UNCHANGED <<ipcVars, callVars, hookVars, state_file, processes, platform_arg, procVars, logVars, spc>>

\* _save_run_state(state); time.sleep(2)
MonitorSave(r) ==
    /\ mpc[r] = "save"
    /\ state_file' = [state_file EXCEPT ![r] = <<St(r)>>]
    /\ mpc' = [mpc EXCEPT ![r] = "poll"]
    /\ writers' = writers \ {<<"monitor", r>>}
    /\ UNCHANGED <<ipcVars, start_log, envVars, cleanup_log, roundVars, read_errors, batch, earlier, stdout_files, hookVars, run_states,
                   processes, platform_arg, procVars, logVars, position, spc>>

\* after the loop: one last read of platform p's log, the returned offset is
\* not kept
MonitorFinalRead(r, p) ==
    /\ mpc[r] = FinalPc(p)
    /\ LET res == ReadActionLog(St(r), p, log_data[r][p], position[r][p],
                                ExistingLogs(r))
       IN IF LogExists(r, p)
          THEN run_states' = [run_states EXCEPT ![r] = <<res.state>>]
          ELSE UNCHANGED run_states
    /\ mpc' = [mpc EXCEPT ![r] = IF p = "twitter" THEN "final_reddit" ELSE "classify"]
    /\ UNCHANGED <<ipcVars, callVars, hookVars, state_file, processes, platform_arg, procVars, logVars, position, spc>>

\* exit_code = process.returncode; 0 -> COMPLETED, else FAILED with the last
\* 2000 characters of simulation.log as error; both running flags cleared
Classify(st, exit_code) ==
    IF exit_code = 0
    THEN [st EXCEPT !.runner_status = "completed",
                    !.running = [p \in Platforms |-> FALSE]]
    ELSE [st EXCEPT !.runner_status = "failed",
                    !.error = "exit_code_and_log_excerpt",
                    !.running = [p \in Platforms |-> FALSE]]

MonitorClassify(r) ==
    /\ mpc[r] = "classify"
    /\ run_states' = [run_states EXCEPT ![r] = <<Classify(St(r), returncode[r])>>]
    /\ mpc' = [mpc EXCEPT ![r] = "final_save"]
    /\ UNCHANGED <<ipcVars, callVars, hookVars, state_file, processes, platform_arg, procVars, logVars, position, spc>>

\* cls._save_run_state(state) after the classification
MonitorFinalSave(r) ==
    /\ mpc[r] = "final_save"
    /\ state_file' = [state_file EXCEPT ![r] = <<St(r)>>]
    /\ mpc' = [mpc EXCEPT ![r] = "finally"]
    /\ writers' = writers \ {<<"monitor", r>>}
    /\ UNCHANGED <<ipcVars, start_log, envVars, cleanup_log, roundVars, read_errors, batch, earlier, stdout_files, hookVars, run_states,
                   processes, platform_arg, procVars, logVars, position, spc>>

\* a monitor that launches the worker again when it ended with an error
MonitorFinally_Retry(r) ==
    /\ mpc[r] = "finally"
    /\ IF returncode[r] # 0
       THEN /\ proc' = [proc EXCEPT ![r] = "alive"]
            /\ mpc' = [mpc EXCEPT ![r] = "poll"]
            /\ UNCHANGED <<processes, stdout_files>>
       ELSE /\ processes' = processes \ {r}
            /\ stdout_files' = stdout_files \ {r}
            /\ mpc' = [mpc EXCEPT ![r] = "done"]
            /\ UNCHANGED proc
    /\ UNCHANGED <<ipcVars, start_log, envVars, cleanup_log, roundVars, read_errors, batch, earlier, writers, hookVars, run_states, state_file, platform_arg,
                   returncode, shutdown_event, logVars, position, spc>>

\* finally: cls._processes.pop(simulation_id, None); the handle in
\* _stdout_files is closed and popped
MonitorFinally(r) ==
    /\ mpc[r] = "finally"
    /\ processes' = processes \ {r}
    /\ stdout_files' = stdout_files \ {r}
    /\ mpc' = [mpc EXCEPT ![r] = "done"]
    /\ UNCHANGED <<ipcVars, start_log, envVars, cleanup_log, roundVars, read_errors, batch, earlier, writers, hookVars, run_states, state_file, platform_arg, procVars, logVars, position, spc>>

Monitor(r) ==
    \/ MonitorPoll(r)
    \/ \E p \in Platforms : MonitorRead(r, p)
    \/ MonitorSave(r)
    \/ \E p \in Platforms : MonitorFinalRead(r, p)
    \/ MonitorClassify(r)
    \/ MonitorFinalSave(r)
    \/ MonitorFinally(r)

WorkerLogs(r) ==
    \E p \in Platforms :
        \/ \E n \in 1..3 : LogSimulationStart(r, p, n)
        \/ \E n \in 1..3 : LogAction(r, p, n)
        \/ \E n \in 1..3 : LogSimulationEnd(r, p, n)
        \/ WriteRest(r, p)

\* ------------------------------------------------- specification: ingestion
\* one run: the worker writes its logs and exits, the monitor ingests them
NextLog ==
    \E r \in OneRun :
        \/ Prepare(r)
        \/ \E a \in PlatformArgs, l \in SUBSET Platforms : FirstStart(r, a, l)
        \/ WorkerLogs(r)
        \/ \E code \in {0, 1} : WorkerExit(r, code)
        \/ Monitor(r)

SpecLog == Init /\ [][NextLog]_vars

\* the same run with platforms that log no action (start and end events only)
\* and a worker that does not crash: it ends, if it does, with code 0
NextLogEvents ==
    \E r \in OneRun :
        \/ Prepare(r)
        \/ \E a \in PlatformArgs, l \in SUBSET Platforms : FirstStart(r, a, l)
        \/ \E p \in Platforms, n \in 1..3 : LogSimulationStart(r, p, n)
        \/ \E p \in Platforms, n \in 1..3 : LogSimulationEnd(r, p, n)
        \/ \E p \in Platforms : WriteRest(r, p)
        \/ WorkerExit(r, 0)
        \/ Monitor(r)

\* the monitor thread keeps running while it has a step to take
FairSpecLog ==
    Init /\ [][NextLogEvents]_vars /\ \A r \in OneRun : WF_vars(Monitor(r))

\* ------------------------------------------------- claims on ingestion
\* C1: once every line appended to a platform's log has been read (nothing
\* of a line is still to be written and the monitor's offset is the end of
\* the file), the platform's actions counter equals the number of action
\* lines of the log, however the reads were chunked.
C1_TotalsEqualActionLines ==
    \A r \in OneRun, p \in Platforms :
        (run_states[r] # <<>> /\ pend[r][p] = <<>>
            /\ position[r][p] = Len(log_data[r][p]))
        => St(r).actions_count[p] = ActionsLogged(r, p)

\* the platforms declared by the platform argument of the run's start
DeclaredOf(r) == Declared(platform_arg[r])

\* C6: right after the monitor classified the worker's exit, the status is
\* COMPLETED exactly when the exit code is 0 and every declared platform has
\* reported simulation_end, and otherwise FAILED with the log excerpt as error.
C6_ExitClassification ==
    \A r \in OneRun :
        mpc[r] = "final_save" =>
            IF returncode[r] = 0 /\ \A p \in DeclaredOf(r) : St(r).completed[p]
            THEN St(r).runner_status = "completed"
            ELSE /\ St(r).runner_status = "failed"
                 /\ St(r).error = "exit_code_and_log_excerpt"

\* platform p's log holds its whole simulation_start line
StartEmitted(r, p) ==
    /\ Len(log_data[r][p]) >= 3
    /\ SubSeq(log_data[r][p], 1, 3) = LineBytes("simulation_start")

\* the monitor has not yet classified the worker's exit: a COMPLETED status
\* can only come from an ingested simulation_end
BeforeClassification(r) ==
    mpc[r] \in {"poll", "read_twitter", "read_reddit", "save",
                "final_twitter", "final_reddit", "classify"}

\* C7: whenever the status is COMPLETED as a result of log ingestion, every
\* platform that has emitted simulation_start has had its simulation_end
\* ingested.
C7_CompletedImpliesStartedEnded ==
    \A r \in OneRun :
        (BeforeClassification(r) /\ St(r).runner_status = "completed")
        => \A p \in Platforms : StartEmitted(r, p) => St(r).completed[p]

\* every log the worker created holds its simulation_end, and no platform is
\* still to create one
AllLogsEnded(r) ==
    /\ ExistingLogs(r) # {}
    /\ \A p \in Platforms : wphase[r][p] \in {"off", "ended"} /\ pend[r][p] = <<>>

\* C8: once every log that is ever created contains simulation_end, a run
\* that is still RUNNING is eventually set to COMPLETED by the monitor.
C8_CompletionReached ==
    \A r \in OneRun :
        (AllLogsEnded(r) /\ St(r).runner_status = "running")
            ~> (run_states[r] # <<>> /\ St(r).runner_status = "completed")

\* ------------------------------------------------------------ stop_simulation
\* the worker's signal_handler (setup_signal_handlers): the first signal sets
\* _shutdown_event, a repeated one calls sys.exit(1), which the script's
\* "except SystemExit: pass" turns into a normal end of the process
SignalHandler(r) ==
    IF shutdown_event[r] = 0
    THEN /\ shutdown_event' = [shutdown_event EXCEPT ![r] = 1]
         /\ UNCHANGED <<proc, returncode>>
    ELSE /\ proc' = [proc EXCEPT ![r] = "exited"]
         /\ returncode' = [returncode EXCEPT ![r] = 0]
         /\ UNCHANGED shutdown_event

\* state = get_run_state(); status must be RUNNING or PAUSED (else ValueError);
\* state.runner_status = STOPPING; _save_run_state(state)
StopBegin(r) ==
    /\ spc[r] \in {"idle", "done"}
    /\ GetRunState(r) # <<>>
    /\ GetRunState(r)[1].runner_status \in {"running", "paused"}
    /\ LET st == [GetRunState(r)[1] EXCEPT !.runner_status = "stopping"]
       IN /\ run_states' = [run_states EXCEPT ![r] = <<st>>]
          /\ state_file' = [state_file EXCEPT ![r] = <<st>>]
    /\ spc' = [spc EXCEPT ![r] = "kill"]
    /\ UNCHANGED <<ipcVars, callVars, hookVars, processes, platform_arg, procVars, logVars, mpc, position>>

\* a stop that sends SIGKILL to the group at once
StopSignal_KillFirst(r) ==
    /\ spc[r] = "kill"
    /\ IF r \in processes /\ proc[r] = "alive"
       THEN /\ proc' = [proc EXCEPT ![r] = "exited"]
            /\ returncode' = [returncode EXCEPT ![r] = -9]
            /\ UNCHANGED shutdown_event
       ELSE UNCHANGED procVars
    /\ spc' = [spc EXCEPT ![r] = "mark"]
    /\ UNCHANGED <<ipcVars, callVars, hookVars, supVars, logVars, mpc, position>>

\* process = cls._processes.get(simulation_id)
\* if process and process.poll() is None: os.killpg(pgid, SIGTERM)
StopSignal(r) ==
    /\ spc[r] = "kill"
    /\ IF r \in processes /\ proc[r] = "alive"
       THEN /\ SignalHandler(r)
            /\ spc' = [spc EXCEPT ![r] = "wait"]
       ELSE /\ spc' = [spc EXCEPT ![r] = "mark"]
            /\ UNCHANGED procVars
    /\ UNCHANGED <<ipcVars, callVars, hookVars, supVars, logVars, mpc, position>>

\* process.wait(timeout=10) returns: the worker has exited
StopWait(r) ==
    /\ spc[r] = "wait"
    /\ proc[r] = "exited"
    /\ spc' = [spc EXCEPT ![r] = "mark"]
    /\ UNCHANGED <<ipcVars, callVars, hookVars, supVars, procVars, logVars, mpc, position>>

\* subprocess.TimeoutExpired: os.killpg(pgid, SIGKILL); process.wait(timeout=5)
StopEscalate(r) ==
    /\ spc[r] = "wait"
    /\ proc[r] = "alive"
    /\ proc' = [proc EXCEPT ![r] = "exited"]
    /\ returncode' = [returncode EXCEPT ![r] = -9]
    /\ spc' = [spc EXCEPT ![r] = "mark"]
    /\ UNCHANGED <<ipcVars, callVars, hookVars, supVars, shutdown_event, logVars, mpc, position>>

\* state.runner_status = STOPPED; running flags cleared
MarkStopped(st) ==
    [st EXCEPT !.runner_status = "stopped",
               !.running = [p \in Platforms |-> FALSE]]

\* the state is marked STOPPED and saved; stop_simulation returns it
StopMark(r) ==
    /\ spc[r] = "mark"
    /\ run_states' = [run_states EXCEPT ![r] = <<MarkStopped(St(r))>>]
    /\ state_file' = [state_file EXCEPT ![r] = <<MarkStopped(St(r))>>]
    /\ spc' = [spc EXCEPT ![r] = "done"]
    /\ writers' = writers \ {<<"stop", r>>}
    /\ UNCHANGED <<ipcVars, start_log, envVars, cleanup_log, roundVars, read_errors, batch, earlier, stdout_files, hookVars, processes,
                   platform_arg, procVars, logVars, mpc, position>>

StopSimulation(r) ==
    \/ StopBegin(r)
    \/ StopSignal(r)
    \/ StopWait(r)
    \/ StopEscalate(r)
    \/ StopMark(r)

\* The supervisor's host process is replaced by a new one (crash or kill of
\* the host, then restart): the class-level registries start empty and its
\* threads are gone; run_state.json, the logs and the worker, which runs in
\* its own session, stay.
HostRestart ==
    /\ \E r \in Runs : run_states[r] # <<>>
    /\ run_states' = [r \in Runs |-> <<>>]
    /\ processes' = {}
    /\ stdout_files' = {}
    /\ mpc' = [r \in Runs |-> "none"]
    /\ spc' = [r \in Runs |-> "idle"]
    /\ cleanup_done' = FALSE
    /\ hstack' = <<>>
    /\ host' = "running"
    /\ UNCHANGED <<ipcVars, start_log, envVars, cleanup_log, roundVars, read_errors, batch, earlier, writers, signals, hook_owned, state_file, platform_arg,
                   procVars, logVars, position>>

\* ------------------------------------------------- specification: stop
\* the worker's platforms log their start and end events only
NextStop ==
    \/ \E r \in OneRun :
        \/ Prepare(r)
        \/ \E a \in PlatformArgs, l \in SUBSET Platforms : FirstStart(r, a, l)
        \/ \E p \in Platforms, n \in 1..3 : LogSimulationStart(r, p, n)
        \/ \E p \in Platforms, n \in 1..3 : LogSimulationEnd(r, p, n)
        \/ \E p \in Platforms : WriteRest(r, p)
        \/ \E code \in {0, 1} : WorkerExit(r, code)
        \/ Monitor(r)
        \/ StopSimulation(r)
    \/ HostRestart

SpecStop == Init /\ [][NextStop]_vars

\* ------------------------------------------------- claims on stop
\* stop_simulation has returned and no monitor thread of the run is running
StopSettled(r) ==
    /\ spc[r] = "done"
    /\ mpc[r] \in {"done", "none"}

\* C2: after stop_simulation on a RUNNING run, whatever the interleaving with
\* the monitor thread, the final in-memory and persisted runner_status is
\* STOPPED.
C2_StopEndsStopped ==
    \A r \in OneRun :
        StopSettled(r) =>
            /\ St(r).runner_status = "stopped"
            /\ state_file[r][1].runner_status = "stopped"

\* C9: when stop_simulation has returned with status STOPPED, no worker
\* process of the run is alive.
C9_StoppedMeansNoWorker ==
    \A r \in OneRun :
        (spc[r] = "done" /\ St(r).runner_status = "stopped")
        => proc[r] # "alive"

\* ------------------------------------------------------------ IPC
runVars == <<run_states, state_file, processes, platform_arg, proc, returncode,
             shutdown_event, wphase, log_data, pend, mpc, position, spc>>
clientVars == <<next_id, cpc, ccmd, ctimeout, cpoll, celapsed, cresponse, timed_out, cwake>>
handlerVars == <<hpc, hcmd, executed, answered_at>>

\* send_command up to the first look at the clock: a fresh uuid4 command_id,
\* the command file written, start_time taken
ClientSend(type, timeout, poll_interval) ==
    /\ cpc \in {"idle", "returned", "raised"}
    /\ next_id < MaxCommands
    /\ next_id' = next_id + 1
    /\ ccmd' = next_id + 1
    /\ cmd_files' = [cmd_files EXCEPT ![next_id + 1] = type]
    /\ ctimeout' = timeout
    /\ cpoll' = poll_interval
    /\ celapsed' = 0
    /\ cresponse' = <<>>
    /\ cpc' = "poll"
    /\ cwake' = 0
    /\ answered_at' = -1
    /\ UNCHANGED <<runVars, hookVars, callVars, resp_files, timed_out, hpc, hcmd, executed>>

\* the default poll_interval of send_command (0.5 s): one clock tick
DefaultPollInterval == 1

\* send_interview: send_command(INTERVIEW, args, timeout) with the default
\* poll_interval
SendInterview(timeout) ==
    ClientSend("interview", timeout, DefaultPollInterval)

\* a loop condition that admits one more turn at the deadline
InTime_AtDeadline(elapsed, timeout) == elapsed <= timeout

\* while time.time() - start_time < timeout
InTime(elapsed, timeout) == elapsed < timeout

\* one turn of the wait loop: the response file exists and parses -> leave
\* the loop with it; otherwise (absent, or json.load fails on a file still
\* being written) time.sleep(poll_interval)
ClientPoll ==
    /\ cpc = "poll"
    /\ InTime(celapsed, ctimeout)
    /\ IF resp_files[ccmd] \in {"completed", "failed"}
       THEN /\ cresponse' = <<[command_id |-> ccmd, status |-> resp_files[ccmd]]>>
            /\ cpc' = "rm_command"
            /\ UNCHANGED celapsed
       ELSE /\ celapsed' = celapsed + cpoll
            /\ UNCHANGED <<cresponse, cpc>>
    /\ UNCHANGED <<runVars, hookVars, callVars, cmd_files, resp_files, next_id, ccmd,
                   ctimeout, cpoll, cwake, timed_out, handlerVars>>

\* try: os.remove(command_file); os.remove(response_file) except OSError: pass
\* first half: a missing command file raises, and the handler of the
\* exception skips the removal of the response file
ClientRemoveCommand ==
    /\ cpc = "rm_command"
    /\ IF cmd_files[ccmd] # "none"
       THEN /\ cmd_files' = [cmd_files EXCEPT ![ccmd] = "none"]
            /\ cpc' = "rm_response"
       ELSE /\ cpc' = "returned"
            /\ UNCHANGED cmd_files
    /\ UNCHANGED <<runVars, hookVars, callVars, resp_files, next_id, ccmd, ctimeout, cpoll, cwake,
                   celapsed, cresponse, timed_out, handlerVars>>

\* second half: os.remove(response_file); then return response
ClientRemoveResponse ==
    /\ cpc = "rm_response"
    /\ resp_files' = [resp_files EXCEPT ![ccmd] = "none"]
    /\ cpc' = "returned"
    /\ UNCHANGED <<runVars, hookVars, callVars, cmd_files, next_id, ccmd, ctimeout, cpoll, cwake,
                   celapsed, cresponse, timed_out, handlerVars>>

\* the loop condition fails: the wait is over
ClientTimeout ==
    /\ cpc = "poll"
    /\ ~InTime(celapsed, ctimeout)
    /\ cpc' = "rm_stale"
    /\ UNCHANGED <<runVars, hookVars, callVars, cmd_files, resp_files, next_id, ccmd,
                   ctimeout, cpoll, cwake, celapsed, cresponse, timed_out, handlerVars>>

\* a clean-up on timeout that leaves the command file in place
RemoveStaleCommand_Kept(files, id) == files

\* the command files left after the clean-up on timeout:
\* try: os.remove(command_file) except OSError: pass
RemoveStaleCommand(files, id) == [files EXCEPT ![id] = "none"]

\* clean-up on timeout, then raise TimeoutError
ClientRaise ==
    /\ cpc = "rm_stale"
    /\ cmd_files' = RemoveStaleCommand(cmd_files, ccmd)
    /\ timed_out' = timed_out \cup {ccmd}
    /\ cpc' = "raised"
    /\ UNCHANGED <<runVars, hookVars, callVars, resp_files, next_id, ccmd, ctimeout, cpoll, cwake,
                   celapsed, cresponse, handlerVars>>

Client ==
    \/ \E t \in CommandTypes, timeout \in 0..MaxTimeout, pi \in 1..MaxPoll :
            ClientSend(t, timeout, pi)
    \/ \E timeout \in 0..MaxTimeout : SendInterview(timeout)
    \/ ClientPoll
    \/ ClientRemoveCommand
    \/ ClientRemoveResponse
    \/ ClientTimeout
    \/ ClientRaise

\* a poll_command that takes the most recent command file
OldestCommand_Newest ==
    CHOOSE c \in CommandIds :
        /\ cmd_files[c] # "none"
        /\ \A d \in CommandIds : cmd_files[d] # "none" => c >= d

\* poll_command: the readable command file with the oldest modification time
\* (command files are created in the order of their ids)
OldestCommand ==
    CHOOSE c \in CommandIds :
        /\ cmd_files[c] # "none"
        /\ \A d \in CommandIds : cmd_files[d] # "none" => c <= d

\* process_commands: command = self.poll_command(); a command was found
HandlerPoll ==
    /\ hpc = "idle"
    /\ \E c \in CommandIds : cmd_files[c] # "none"
    /\ hcmd' = OldestCommand
    /\ hpc' = "handle"
    /\ UNCHANGED <<runVars, hookVars, callVars, cmd_files, resp_files, clientVars, executed,
                   answered_at>>

\* handle_interview / handle_batch_interview / close_env: the command read by
\* poll_command is carried out
HandlerExecute ==
    /\ hpc = "handle"
    /\ executed' = executed \cup {hcmd}
    /\ hpc' = "respond"
    /\ UNCHANGED <<runVars, hookVars, callVars, cmd_files, resp_files, clientVars, hcmd,
                   answered_at>>

\* the client's clock at the moment the response to command id is complete on
\* disk, kept while the client still waits for that command
AnsweredAt(id) ==
    IF id = ccmd /\ cpc \in {"poll", "sleep"} /\ answered_at = -1
    THEN celapsed ELSE answered_at

\* send_response: with open(response_file, 'w') as f: json.dump(response, f).
\* whole: the file is seen complete at once; otherwise it is first seen
\* incomplete
HandlerWriteResponse(status, whole) ==
    /\ hpc = "respond"
    /\ resp_files' = [resp_files EXCEPT ![hcmd] = IF whole THEN status ELSE "partial"]
    /\ hpc' = IF whole THEN "rm_command" ELSE IF status = "completed"
                                              THEN "finish_completed"
                                              ELSE "finish_failed"
    /\ answered_at' = IF whole THEN AnsweredAt(hcmd) ELSE answered_at
    /\ UNCHANGED <<runVars, hookVars, callVars, cmd_files, clientVars, hcmd, executed>>

\* the rest of the response file is written
HandlerFinishResponse ==
    /\ hpc \in {"finish_completed", "finish_failed"}
    /\ resp_files' = [resp_files EXCEPT ![hcmd] =
                        IF hpc = "finish_completed" THEN "completed" ELSE "failed"]
    /\ hpc' = "rm_command"
    /\ answered_at' = AnsweredAt(hcmd)
    /\ UNCHANGED <<runVars, hookVars, callVars, cmd_files, clientVars, hcmd, executed>>

\* a send_response that leaves the command file in place
HandlerRemoveCommand_Kept ==
    /\ hpc = "rm_command"
    /\ hpc' = "idle"
    /\ UNCHANGED <<runVars, hookVars, callVars, cmd_files, resp_files, clientVars,
                   hcmd, executed, answered_at>>

\* send_response: try: os.remove(command_file) except OSError: pass
HandlerRemoveCommand ==
    /\ hpc = "rm_command"
    /\ cmd_files' = [cmd_files EXCEPT ![hcmd] = "none"]
    /\ hpc' = "idle"
    /\ UNCHANGED <<runVars, hookVars, callVars, resp_files, clientVars, hcmd, executed,
                   answered_at>>

Handler ==
    \/ HandlerPoll
    \/ HandlerExecute
    \/ \E st \in {"completed", "failed"}, whole \in BOOLEAN :
            HandlerWriteResponse(st, whole)
    \/ HandlerFinishResponse
    \/ HandlerRemoveCommand

\* ------------------------------------------------- specifications: IPC
\* a client and the worker's command handler
NextIPC == Client \/ Handler

SpecIPC == Init /\ [][NextIPC]_vars

\* a client whose commands directory no worker ever reads
NextClientAlone ==
    \/ \E t \in CommandTypes, timeout \in 0..MaxTimeout, pi \in 1..MaxPoll :
            ClientSend(t, timeout, pi)
    \/ \E timeout \in 0..MaxTimeout : SendInterview(timeout)
    \/ ClientPoll
    \/ ClientTimeout
    \/ ClientRaise

SpecClientAlone == Init /\ [][NextClientAlone]_vars

\* ------------------------------------------------- claims on IPC
\* C3: when send_command has returned a response, the response carries the
\* command's id and neither the command file nor the response file of that
\* id exists.
C3_RoundTripNoLeak ==
    cpc = "returned" =>
        /\ cresponse[1].command_id = ccmd
        /\ cmd_files[ccmd] = "none"
        /\ resp_files[ccmd] = "none"

\* C4: once send_command has raised TimeoutError for a command id, the worker
\* does not execute that command any more and no response file of that id
\* exists from then on.
C4_NoLateExecution ==
    [][\A c \in CommandIds :
          c \in timed_out =>
              /\ c \in executed' => c \in executed
              /\ resp_files'[c] = "none"]_vars

\* C5: with no worker reading the commands directory, send_command never
\* returns a response; when it has raised TimeoutError the timeout has
\* elapsed, by at most one poll interval, and no command or response file of
\* a timed-out command id exists.
C5_TimeoutWithoutWorker ==
    /\ cpc \notin {"rm_command", "rm_response", "returned"}
    /\ cpc = "raised" =>
        /\ celapsed >= ctimeout
        /\ celapsed <= ctimeout + cpoll
        /\ ccmd \in timed_out
    /\ \A c \in timed_out : cmd_files[c] = "none" /\ resp_files[c] = "none"

\* a send_interview-like call with timeout 4 ticks (2 s) has raised after
\* polling, and an earlier call with a timeout that is no multiple of its
\* poll interval has raised too
C5_Witness ==
    /\ cpc = "raised"
    /\ ctimeout = 4 /\ cpoll = DefaultPollInterval /\ celapsed = 4
    /\ timed_out = {1, 2}

\* ------------------------------------------------------------ host shutdown
\* The host's main thread runs the shutdown hook.  A signal handler runs on
\* top of whatever the main thread is doing, so the calls in progress form a
\* stack; each frame is one cleanup_handler or one atexit callback, with its
\* position inside cleanup_all_simulations and the rest of its
\* "for simulation_id, process in processes" loop.
Frame(kind) == [kind |-> kind, pc |-> "guard", todo |-> <<>>]
Top == hstack[Len(hstack)]
SetTop(f) == [hstack EXCEPT ![Len(hstack)] = f]

\* list(cls._processes.items()): the registered runs in the order of the dict
Orders(S) ==
    {o \in UNION {[1..n -> S] : n \in 0..Cardinality(Runs)} :
        /\ Len(o) = Cardinality(S)
        /\ \A i, j \in 1..Len(o) : i # j => o[i] # o[j]}

\* SIGINT or SIGTERM is delivered to the host: cleanup_handler is entered
ShutdownSignal ==
    /\ host \in {"running", "exiting", "atexit"}
    /\ signals < MaxSignals
    /\ signals' = signals + 1
    /\ hstack' = Append(hstack, Frame("handler"))
    /\ UNCHANGED <<runVars, ipcVars, callVars, cleanup_done, host, hook_owned>>

\* app.run returns without a pending exception: the interpreter shuts down
ServerReturns ==
    /\ host = "running"
    /\ hstack = <<>>
    /\ run_states # [r \in Runs |-> <<>>]
    /\ host' = "exiting"
    /\ UNCHANGED <<runVars, ipcVars, callVars, cleanup_done, hstack, signals, hook_owned>>

\* atexit.register(cls.cleanup_all_simulations): the callback is entered
AtExit ==
    /\ host = "exiting"
    /\ hstack = <<>>
    /\ host' = "atexit"
    /\ hstack' = <<Frame("atexit")>>
    /\ UNCHANGED <<runVars, ipcVars, callVars, cleanup_done, signals, hook_owned>>

\* if cls._cleanup_done: return
\* cls._cleanup_done = True
\* if not has_processes and not has_updaters: return
\* processes = list(cls._processes.items())
CleanupGuard ==
    /\ hstack # <<>>
    /\ Top.pc = "guard"
    /\ IF cleanup_done
       THEN /\ hstack' = SetTop([Top EXCEPT !.pc = "after"])
            /\ UNCHANGED <<cleanup_done, hook_owned>>
       ELSE /\ cleanup_done' = TRUE
            /\ hook_owned' = {r \in processes : proc[r] = "alive"}
            /\ IF processes = {}
               THEN hstack' = SetTop([Top EXCEPT !.pc = "after"])
               ELSE \E o \in Orders(processes) :
                        hstack' = SetTop([Top EXCEPT !.pc = "next", !.todo = o])
    /\ UNCHANGED <<runVars, ipcVars, callVars, host, signals>>

\* next turn of the loop: if process.poll() is None: os.killpg(pgid, SIGTERM);
\* a worker that has exited is passed over
CleanupTerminate ==
    /\ hstack # <<>>
    /\ Top.pc = "next"
    /\ Top.todo # <<>>
    /\ LET r == Head(Top.todo) IN
        IF proc[r] = "alive"
        THEN /\ SignalHandler(r)
             /\ hstack' = SetTop([Top EXCEPT !.pc = "wait"])
        ELSE /\ hstack' = SetTop([Top EXCEPT !.todo = Tail(Top.todo)])
             /\ UNCHANGED procVars
    /\ UNCHANGED <<supVars, logVars, mpc, position, spc, ipcVars, callVars, cleanup_done,
                   host, signals, hook_owned>>

\* process.wait(timeout=5) returns: the worker has exited
CleanupWait ==
    /\ hstack # <<>>
    /\ Top.pc = "wait"
    /\ proc[Head(Top.todo)] = "exited"
    /\ hstack' = SetTop([Top EXCEPT !.pc = "mark"])
    /\ UNCHANGED <<runVars, ipcVars, callVars, cleanup_done, host, signals, hook_owned>>

\* subprocess.TimeoutExpired: os.killpg(pgid, SIGKILL); process.wait(timeout=5)
CleanupEscalate ==
    /\ hstack # <<>>
    /\ Top.pc = "wait"
    /\ LET r == Head(Top.todo) IN
        /\ proc[r] = "alive"
        /\ proc' = [proc EXCEPT ![r] = "exited"]
        /\ returncode' = [returncode EXCEPT ![r] = -9]
    /\ hstack' = SetTop([Top EXCEPT !.pc = "mark"])
    /\ UNCHANGED <<supVars, shutdown_event, logVars, mpc, position, spc, ipcVars, callVars,
                   cleanup_done, host, signals, hook_owned>>

\* state.runner_status = STOPPED; running flags cleared;
\* state.error = "server shut down, simulation terminated"
MarkShutdown(st) == [MarkStopped(st) EXCEPT !.error = "shutdown"]

\* state = cls.get_run_state(simulation_id); if state: ...; _save_run_state
CleanupMark ==
    /\ hstack # <<>>
    /\ Top.pc = "mark"
    /\ LET r == Head(Top.todo) IN
        IF GetRunState(r) # <<>>
        THEN /\ run_states' = [run_states EXCEPT ![r] = <<MarkShutdown(GetRunState(r)[1])>>]
             /\ state_file' = [state_file EXCEPT ![r] = <<MarkShutdown(GetRunState(r)[1])>>]
        ELSE UNCHANGED <<run_states, state_file>>
    /\ hstack' = SetTop([Top EXCEPT !.pc = "next", !.todo = Tail(Top.todo)])
    /\ UNCHANGED <<processes, platform_arg, procVars, logVars, mpc, position, spc,
                   ipcVars, callVars, cleanup_done, host, signals, hook_owned>>

\* after the loop: the log handles are closed, cls._stdout_files.clear();
\* cls._processes.clear(); cleanup_all_simulations returns
CleanupClear ==
    /\ hstack # <<>>
    /\ Top.pc = "next"
    /\ Top.todo = <<>>
    /\ processes' = {}
    /\ stdout_files' = {}
    /\ hstack' = SetTop([Top EXCEPT !.pc = "after"])
    /\ UNCHANGED <<run_states, state_file, platform_arg, procVars, logVars, mpc,
                   position, spc, ipcVars, start_log, envVars, cleanup_log, roundVars, read_errors, batch, earlier, writers, cleanup_done, host, signals, hook_owned>>

\* a cleanup_handler whose original handler returns: the interrupted call
\* goes on
HandlerRaise_Return ==
    /\ hstack # <<>>
    /\ Top.kind = "handler"
    /\ Top.pc = "after"
    /\ hstack' = SubSeq(hstack, 1, Len(hstack) - 1)
    /\ UNCHANGED <<runVars, ipcVars, callVars, cleanup_done, signals, hook_owned, host>>

\* cleanup_handler after cleanup_all_simulations: original_sigint is
\* default_int_handler, original_sigterm is SIG_DFL; both ways
\* KeyboardInterrupt is raised.  No frame of the hook catches it
\* ("except Exception" does not), so every call in progress is abandoned;
\* raised inside the atexit callback it ends the callback.
HandlerRaise ==
    /\ hstack # <<>>
    /\ Top.kind = "handler"
    /\ Top.pc = "after"
    /\ hstack' = <<>>
    /\ host' = IF host = "atexit" THEN "exited" ELSE "exiting"
    /\ UNCHANGED <<runVars, ipcVars, callVars, cleanup_done, signals, hook_owned>>

\* the atexit callback returns: the host process is gone
AtExitReturn ==
    /\ hstack # <<>>
    /\ Top.kind = "atexit"
    /\ Top.pc = "after"
    /\ hstack' = <<>>
    /\ host' = "exited"
    /\ UNCHANGED <<runVars, ipcVars, callVars, cleanup_done, signals, hook_owned>>

CleanupAllSimulations ==
    \/ CleanupGuard
    \/ CleanupTerminate
    \/ CleanupWait
    \/ CleanupEscalate
    \/ CleanupMark
    \/ CleanupClear

ShutdownHook ==
    \/ ShutdownSignal
    \/ ServerReturns
    \/ AtExit
    \/ CleanupAllSimulations
    \/ HandlerRaise
    \/ AtExitReturn

\* ------------------------------------------------- specification: shutdown
\* two runs whose workers log nothing, their monitor threads (daemon threads,
\* gone with the host) and the host's shutdown hook
NextShutdown ==
    \/ \E r \in Runs :
        \/ /\ host = "running" /\ hstack = <<>>
           /\ FirstStart(r, "parallel", {})
        \/ Prepare(r)
        \/ \E code \in {0, 1} : WorkerExit(r, code)
        \/ host # "exited" /\ Monitor(r)
    \/ ShutdownHook

SpecShutdown == Init /\ [][NextShutdown]_vars

\* ------------------------------------------------- claims on shutdown
\* the runs the hook found with a live worker, without those whose worker
\* ended by itself before any signal reached it
Affected ==
    {r \in hook_owned : ~(proc[r] = "exited" /\ shutdown_event[r] = 0)}

\* C10: when the host is gone after its shutdown hook ran with live workers
\* owned, none of those workers is alive and the persisted runner_status of
\* each affected run is STOPPED.
C10_ShutdownStopsAll ==
    host = "exited" =>
        \A r \in Affected :
            /\ proc[r] # "alive"
            /\ state_file[r][1].runner_status = "stopped"

\* ------------------------------------------------- specification: start
\* one run: preparation, start_simulation calls of every outcome, a worker
\* that logs nothing, the monitor thread and stop_simulation
NextStart ==
    \E r \in OneRun :
        \/ Prepare(r)
        \/ \E a \in PlatformArgs : StartSimulation(r, a, {})
        \/ StartFails(r)
        \/ \E code \in {0, 1} : WorkerExit(r, code)
        \/ Monitor(r)
        \/ StopSimulation(r)

SpecStart == Init /\ [][NextStart]_vars

\* ------------------------------------------------- claims on start
\* this step is a start_simulation call for run r
CallMade(r) == Len(start_log'[r]) > Len(start_log[r])
\* what that call did
Outcome(r) == start_log'[r][Len(start_log'[r])]
\* outcome of the latest start_simulation call for run r
LastOutcome(r) ==
    IF start_log[r] = <<>> THEN "none" ELSE start_log[r][Len(start_log[r])]

\* C11: a start_simulation call on a run that is STARTING or RUNNING raises,
\* and the run state as get_run_state returns it, run_state.json, the
\* process registry, the monitor threads and the processes are as before.
C11_DuplicateStartChangesNothing ==
    [][\A r \in OneRun :
          (/\ CallMade(r)
           /\ GetRunState(r) # <<>>
           /\ GetRunState(r)[1].runner_status \in {"starting", "running"}) =>
              /\ Outcome(r) = "AlreadyRunning"
              /\ GetRunState(r)' = GetRunState(r)
              /\ state_file' = state_file
              /\ processes' = processes
              /\ mpc' = mpc
              /\ proc' = proc]_vars

\* a running run whose second start_simulation call was rejected
C11_Witness ==
    \E r \in OneRun :
        /\ start_log[r] = <<"started", "AlreadyRunning">>
        /\ St(r).runner_status = "running"
        /\ proc[r] = "alive"

\* C16: a start_simulation call on a run that has no state yet and no
\* simulation_config.json raises for the missing configuration, and
\* a call that raises for an absent input (configuration, script, graph_id)
\* launches no process, registers none and creates no monitor thread.
C16_MissingInputNeverStarts ==
    [][\A r \in OneRun :
          CallMade(r) =>
              /\ (/\ GetRunState(r) = <<>>
                  /\ ConfigFile \notin sim_files[r]) => Outcome(r) = "ConfigMissing"
              /\ Outcome(r) \in MissingInput =>
                    /\ proc' = proc
                    /\ processes' = processes
                    /\ mpc' = mpc]_vars

\* a call without configuration and a call without the script have raised,
\* and no worker and no monitor thread exists
C16_Witness ==
    \E r \in OneRun :
        /\ start_log[r] = <<"ConfigMissing", "ScriptMissing">>
        /\ proc[r] = "none"
        /\ mpc[r] = "none"

\* C17: a start_simulation call in which launching the worker raises leaves
\* run_state.json and the in-memory state FAILED with the error text, and
\* starts no monitor thread and registers no process.
C17_LaunchFailureMarksFailed ==
    [][\A r \in OneRun :
          (CallMade(r) /\ Outcome(r) = "LaunchFailure") =>
              /\ state_file'[r] # <<>>
              /\ state_file'[r][1].runner_status = "failed"
              /\ state_file'[r][1].error # ""
              /\ GetRunState(r)'[1].runner_status = "failed"
              /\ mpc' = mpc
              /\ processes' = processes
              /\ proc' = proc]_vars

\* the latest call failed to launch and the persisted status is FAILED
C17_Witness ==
    \E r \in OneRun :
        /\ LastOutcome(r) = "LaunchFailure"
        /\ state_file[r][1].runner_status = "failed"
        /\ state_file[r][1].error = "OSError"

\* C18: a worker process comes into being only in a start_simulation call
\* that succeeds, and while a run carries the monitor's FAILED verdict its
\* worker is not alive.
C18_NoAutomaticRestart ==
    /\ [][\A r \in OneRun :
            (proc[r] # "alive" /\ proc'[r] = "alive") =>
                (CallMade(r) /\ Outcome(r) = "started")]_vars
    /\ [](\A r \in OneRun :
            (run_states[r] # <<>> /\ St(r).runner_status = "failed"
                /\ St(r).error = "exit_code_and_log_excerpt")
            => proc[r] = "exited")

\* the worker ended with a non-zero code, the monitor marked the run FAILED
\* and ended
C18_Witness ==
    \E r \in OneRun :
        /\ run_states[r] # <<>>
        /\ St(r).runner_status = "failed"
        /\ returncode[r] = 1
        /\ proc[r] = "exited"
        /\ mpc[r] = "done"

\* ------------------------------------------------- claims on the status
\* the edges of the runner_status state machine after the state's creation
Edges ==
    {<<"starting", "running">>, <<"starting", "failed">>,
     <<"running", "stopping">>, <<"stopping", "stopped">>,
     <<"running", "completed">>, <<"running", "failed">>,
     <<"running", "paused">>, <<"paused", "running">>}

\* C12: outside start_simulation calls, every change of a run's
\* runner_status follows an edge of the state machine; STOPPED, COMPLETED
\* and FAILED are not overwritten.
C12_StatusFollowsEdges ==
    [][\A r \in OneRun :
          (/\ ~CallMade(r)
           /\ run_states[r] # <<>>
           /\ run_states'[r] # <<>>
           /\ run_states'[r][1].runner_status # St(r).runner_status)
          => <<St(r).runner_status, run_states'[r][1].runner_status>> \in Edges]_vars

\* ------------------------------------------------------------ environment status
\* the run whose ipc_commands / ipc_responses directories the client and the
\* command handler use
IpcRun == "sim_1"

\* os.path.exists(sim_dir): the run directory holds at least one file
SimDirExists(r) ==
    \/ sim_files[r] # {}
    \/ state_file[r] # <<>>
    \/ env_status[r] # "missing"
    \/ \E p \in Platforms : LogExists(r, p)

\* a heartbeat check that only rejects an explicit "stopped"
CheckEnvAlive_NotStopped(doc) == doc # "stopped"

\* SimulationIPCClient.check_env_alive on the content of env_status.json:
\* no file -> False; json.load fails -> False; else status == "alive"
CheckEnvAlive(doc) ==
    IF doc = "missing" THEN FALSE
    ELSE IF doc = "partial" THEN FALSE
    ELSE doc = "alive"

\* main, after the simulations have returned: the command handler is created
\* and update_status("alive") writes env_status.json.  whole: readers see
\* the document complete at once; otherwise they first see it incomplete.
WorkerEnterWait(r, whole) ==
    /\ proc[r] = "alive"
    /\ wmain[r] = "sim"
    /\ \A p \in Platforms : wphase[r][p] \in {"off", "ended"} /\ pend[r][p] = <<>>
    /\ env_status' = [env_status EXCEPT ![r] = IF whole THEN "alive" ELSE "partial"]
    /\ wmain' = [wmain EXCEPT ![r] = IF whole THEN "waiting" ELSE "write_alive"]
    /\ UNCHANGED <<run_states, state_file, processes, platform_arg, procVars, logVars,
                   mpc, position, spc, ipcVars, hookVars, start_log, cleanup_log, roundVars, read_errors, batch, earlier, writers, stdout_files, sim_files>>

\* the wait loop ends (_shutdown_event set, or process_commands returned
\* False for close_env): update_status("stopped")
WorkerLeaveWait(r, close_env, whole) ==
    /\ proc[r] = "alive"
    /\ wmain[r] = "waiting"
    /\ close_env \/ shutdown_event[r] > 0
    /\ env_status' = [env_status EXCEPT ![r] = IF whole THEN "stopped" ELSE "partial"]
    /\ wmain' = [wmain EXCEPT ![r] = IF whole THEN "closing" ELSE "write_stopped"]
    /\ UNCHANGED <<run_states, state_file, processes, platform_arg, procVars, logVars,
                   mpc, position, spc, ipcVars, hookVars, start_log, cleanup_log, roundVars, read_errors, batch, earlier, writers, stdout_files, sim_files>>

\* update_status: the rest of the document is written
WorkerFinishStatus(r) ==
    /\ proc[r] = "alive"
    /\ wmain[r] \in {"write_alive", "write_stopped"}
    /\ env_status' = [env_status EXCEPT ![r] =
                        IF wmain[r] = "write_alive" THEN "alive" ELSE "stopped"]
    /\ wmain' = [wmain EXCEPT ![r] =
                        IF wmain[r] = "write_alive" THEN "waiting" ELSE "closing"]
    /\ UNCHANGED <<run_states, state_file, processes, platform_arg, procVars, logVars,
                   mpc, position, spc, ipcVars, hookVars, start_log, cleanup_log, roundVars, read_errors, batch, earlier, writers, stdout_files, sim_files>>

\* the worker process ends: with code 0 after main has closed the
\* environments, with another code at any point (uncaught error, kill)
WorkerEnd(r, code) ==
    /\ code = 0 => wmain[r] = "closing"
    /\ WorkerExit(r, code)

\* positions of the client at which no send_command call is in progress
ClientIdle == {"idle", "returned", "raised", "not_alive", "no_simulation"}

\* interview_agent / interview_agents_batch up to the call of
\* send_interview / send_batch_interview: ValueError when the run directory
\* does not exist or check_env_alive() is False
Interview(type, timeout) ==
    /\ cpc \in ClientIdle
    /\ IF ~SimDirExists(IpcRun)
       THEN /\ cpc' = "no_simulation"
            /\ UNCHANGED <<runVars, hookVars, callVars, cmd_files, resp_files, next_id,
                           ccmd, ctimeout, cpoll, cwake, celapsed, cresponse, timed_out,
                           handlerVars>>
       ELSE IF ~CheckEnvAlive(env_status[IpcRun])
       THEN /\ cpc' = "not_alive"
            /\ UNCHANGED <<runVars, hookVars, callVars, cmd_files, resp_files, next_id,
                           ccmd, ctimeout, cpoll, cwake, celapsed, cresponse, timed_out,
                           handlerVars>>
       ELSE ClientSend(type, timeout, DefaultPollInterval)

InterviewAgent(timeout) == Interview("interview", timeout)
InterviewAgentsBatch(timeout) == Interview("batch_interview", timeout)

\* ------------------------------------------------- specification: environment
\* one run: its worker's main with the wait for commands, the monitor
\* thread, stop_simulation,
\* and a caller of interview_agent / interview_agents_batch with the
\* worker's command handler
NextEnv ==
    \/ \E r \in {IpcRun} :
        \/ Prepare(r)
        \/ FirstStart(r, "parallel", {})
        \/ \E whole \in BOOLEAN : WorkerEnterWait(r, whole)
        \/ \E close_env, whole \in BOOLEAN : WorkerLeaveWait(r, close_env, whole)
        \/ WorkerFinishStatus(r)
        \/ \E code \in {0, 1} : WorkerEnd(r, code)
        \/ Monitor(r)
        \/ StopSimulation(r)
    \/ \E timeout \in {0, 1} : InterviewAgent(timeout)
    \/ \E timeout \in {0, 1} : InterviewAgentsBatch(timeout)
    \/ ClientPoll
    \/ ClientRemoveCommand
    \/ ClientRemoveResponse
    \/ ClientTimeout
    \/ ClientRaise
    \/ (proc[IpcRun] = "alive" /\ wmain[IpcRun] = "waiting" /\ Handler)

SpecEnv == Init /\ [][NextEnv]_vars

\* ------------------------------------------------- claims on the environment
\* C13: whenever the worker process of a run has exited, check_env_alive
\* returns false.
C13_ExitedMeansNotAlive ==
    \A r \in {IpcRun} :
        proc[r] = "exited" => ~CheckEnvAlive(env_status[r])

C15_ResponseWrittenOnce ==
    /\ [][(hpc = "handle" /\ hpc' = "respond") => hcmd \notin executed]_vars
    /\ [][\A c \in CommandIds :
            (resp_files'[c] # resp_files[c] /\ resp_files'[c] # "none") =>
                /\ c = hcmd
                /\ \/ resp_files[c] = "none" /\ hpc = "respond"
                   \/ resp_files[c] = "partial"
                        /\ hpc \in {"finish_completed", "finish_failed"}]_vars
    /\ [](hpc = "respond" => resp_files[hcmd] = "none")

\* every command has been handled and answered, and the handler is idle
C15_Witness ==
    /\ executed = CommandIds
    /\ hpc = "idle"
    /\ \A c \in CommandIds : cmd_files[c] = "none"

\* ------------------------------------------------------------ cleanup of logs
\* the platform database of the worker
DbFile(p) == IF p = "twitter" THEN "twitter_simulation.db" ELSE "reddit_simulation.db"

\* files_to_delete without run_state.json and env_status.json, which the
\* model keeps in state_file and env_status
FilesToDelete ==
    {MainLog, "stdout.log", "stderr.log", "twitter_simulation.db",
     "reddit_simulation.db"}

\* run_{platform}_simulation before the first log line: an old database is
\* removed and oasis.make creates a new one
WorkerCreatesDb(r, p) ==
    /\ proc[r] = "alive"
    /\ wphase[r][p] = "init"
    /\ DbFile(p) \notin sim_files[r]
    /\ sim_files' = [sim_files EXCEPT ![r] = @ \cup {DbFile(p)}]
    /\ UNCHANGED <<run_states, state_file, processes, platform_arg, procVars, logVars,
                   mpc, position, spc, ipcVars, hookVars, start_log, env_status,
                   cleanup_log, roundVars, read_errors, batch, earlier, writers, stdout_files, wmain>>

\* a cleanup that removes the whole run directory
KeptFiles_None(files) == {}

\* the further files of the run directory after the deletion loop
KeptFiles(files) == files \ FilesToDelete

\* cleaned_files of a cleanup_simulation_logs call
CleanedFiles(r) ==
    (sim_files[r] \cap FilesToDelete)
        \cup (IF state_file[r] # <<>> THEN {"run_state.json"} ELSE {})
        \cup (IF env_status[r] # "missing" THEN {"env_status.json"} ELSE {})
        \cup (IF LogExists(r, "twitter") THEN {"twitter/actions.jsonl"} ELSE {})
        \cup (IF LogExists(r, "reddit") THEN {"reddit/actions.jsonl"} ELSE {})

\* a cleanup that empties the whole registry of run states
DeleteRunState_All(states, r) == [x \in DOMAIN states |-> <<>>]

\* if simulation_id in cls._run_states: del cls._run_states[simulation_id]
DeleteRunState(states, r) == [states EXCEPT ![r] = <<>>]

\* cleanup_simulation_logs.  Without a run directory it returns success at
\* once.  Otherwise the listed files and each platform's actions.jsonl are
\* removed and the entry of _run_states is deleted.  The call is taken on a
\* run whose worker has exited and whose monitor thread has ended.
CleanupSimulationLogs(r) ==
    /\ Len(cleanup_log[r]) < MaxCleanups
    /\ Quiescent(r)
    /\ spc[r] \in {"idle", "done"}
    /\ IF ~SimDirExists(r)
       THEN /\ cleanup_log' = [cleanup_log EXCEPT ![r] =
                                 Append(@, [success |-> TRUE, dir |-> FALSE, cleaned |-> {}])]
            /\ UNCHANGED <<run_states, state_file, log_data, pend, env_status, sim_files>>
       ELSE /\ cleanup_log' = [cleanup_log EXCEPT ![r] =
                                 Append(@, [success |-> TRUE, dir |-> TRUE,
                                            cleaned |-> CleanedFiles(r)])]
            /\ state_file' = [state_file EXCEPT ![r] = <<>>]
            /\ sim_files' = [sim_files EXCEPT ![r] = KeptFiles(@)]
            /\ env_status' = [env_status EXCEPT ![r] = "missing"]
            /\ log_data' = [log_data EXCEPT ![r] = [p \in Platforms |-> <<>>]]
            /\ pend' = [pend EXCEPT ![r] = [p \in Platforms |-> <<>>]]
            /\ run_states' = DeleteRunState(run_states, r)
    /\ UNCHANGED <<processes, platform_arg, procVars, wphase, mpc, position, spc,
                   ipcVars, hookVars, start_log, wmain, roundVars, read_errors, batch, earlier, writers, stdout_files>>

\* ------------------------------------------------- specification: cleanup
\* the twitter worker of a run: database, start and end events, whole lines
TwitterWorker(r) ==
    \/ WorkerCreatesDb(r, "twitter")
    \/ LogSimulationStart(r, "twitter", 3)
    \/ LogSimulationEnd(r, "twitter", 3)
    \/ \E code \in {0, 1} : WorkerExit(r, code)

\* the operations on run r
OperationOn(r) ==
    \/ Prepare(r)
    \/ StartSimulation(r, "twitter", {"twitter"})
    \/ StartLaunchFailure(r, "twitter")
    \/ TwitterWorker(r)
    \/ Monitor(r)
    \/ StopSimulation(r)
    \/ CleanupSimulationLogs(r)

NextCleanup == \E r \in OneRun : OperationOn(r)

SpecCleanup == Init /\ [][NextCleanup]_vars

\* a cleanup_simulation_logs call returned
CleanupMade(r) == Len(cleanup_log'[r]) > Len(cleanup_log[r])
\* what it returned
CleanupResult(r) == cleanup_log'[r][Len(cleanup_log'[r])]

\* C20: a cleanup_simulation_logs call reports success; with a run directory
\* it removes run_state.json, simulation.log, stdout.log, stderr.log, both
\* platform databases, env_status.json, each platform's actions.jsonl and the
\* in-memory state, and no other file: simulation_config.json and the profile
\* files stay.  Without a run directory nothing changes.
C20_CleanupOnlyRunArtifacts ==
    [][\A r \in OneRun :
         CleanupMade(r) =>
           /\ CleanupResult(r).success
           /\ sim_files'[r] \cap {"simulation_config.json", "twitter_profiles.csv",
                                  "reddit_profiles.json"}
                = sim_files[r] \cap {"simulation_config.json", "twitter_profiles.csv",
                                     "reddit_profiles.json"}
           /\ sim_files'[r] \subseteq sim_files[r]
           /\ sim_files[r] \ sim_files'[r] \subseteq
                {"simulation.log", "stdout.log", "stderr.log",
                 "twitter_simulation.db", "reddit_simulation.db"}
           /\ SimDirExists(r) =>
                /\ sim_files'[r] \cap {"simulation.log", "stdout.log", "stderr.log",
                                       "twitter_simulation.db", "reddit_simulation.db"} = {}
                /\ state_file'[r] = <<>>
                /\ env_status'[r] = "missing"
                /\ \A p \in Platforms : log_data'[r][p] = <<>>
                /\ run_states'[r] = <<>>
           /\ ~SimDirExists(r) =>
                <<run_states, state_file, log_data, pend, env_status, sim_files>>'
                  = <<run_states, state_file, log_data, pend, env_status, sim_files>>
           /\ <<processes, platform_arg, procVars, position, mpc, spc, start_log>>'
                = <<processes, platform_arg, procVars, position, mpc, spc, start_log>>
    ]_vars

\* a run that was prepared, ran and wrote its log and database, and was then
\* cleaned: the snapshot, the log and the database are gone, the configuration
\* is still there
C20_Witness ==
    \E r \in OneRun :
        /\ cleanup_log[r] # <<>>
        /\ {"run_state.json", "twitter/actions.jsonl", "twitter_simulation.db",
            "simulation.log"} \subseteq cleanup_log[r][1].cleaned
        /\ start_log[r] = <<"started">>
        /\ ConfigFile \in sim_files[r]
        /\ state_file[r] = <<>>

\* ------------------------------------------------- specification: two runs
\* the first start_simulation call of a run fails at launch
FirstStartFails(r, platform) ==
    /\ start_log[r] = <<>>
    /\ StartLaunchFailure(r, platform)

\* the forced restart of the start endpoint: cleanup_simulation_logs on a
\* run that was started before
CleanupAfterRun(r) ==
    /\ start_log[r] # <<>>
    /\ CleanupSimulationLogs(r)

\* the operations on run r: preparation, start, failed start, the worker's
\* first log line, worker crash, the monitor thread, stop and cleanup
RunOperation(r) ==
    \/ Prepare(r)
    \/ FirstStart(r, "twitter", {"twitter"})
    \/ FirstStartFails(r, "twitter")
    \/ LogSimulationStart(r, "twitter", 3)
    \/ WorkerExit(r, 1)
    \/ Monitor(r)
    \/ StopSimulation(r)
    \/ CleanupAfterRun(r)

NextRuns == \E r \in Runs : RunOperation(r)

SpecRuns == Init /\ [][NextRuns]_vars

\* what the supervisor keeps for run r: the state, the read offsets, the
\* entry of the process registry and the snapshot file
RunView(r) == <<run_states[r], position[r], r \in processes, state_file[r]>>

\* C19: an operation or monitor step on one run leaves every other run's
\* state, read offsets, process registry entry and snapshot file as they were.
C19_RunsIndependent ==
    [][\A a \in Runs : \A b \in Runs \ {a} :
         RunOperation(a) => RunView(b)' = RunView(b)]_vars

\* one run has failed and has been cleaned while the other one is running
\* with its state, registry entry and snapshot in place
C19_Witness ==
    \E a \in Runs : \E b \in Runs \ {a} :
        /\ cleanup_log[a] # <<>>
        /\ cleanup_log[a][1].dir
        /\ "run_state.json" \in cleanup_log[a][1].cleaned
        /\ run_states[a] = <<>>
        /\ run_states[b] # <<>>
        /\ St(b).runner_status = "running"
        /\ b \in processes
        /\ state_file[b] # <<>>

\* ------------------------------------------------------------ IPC with a clock
\* one turn of the wait loop up to time.sleep: the response file exists and
\* parses -> leave the loop with it; otherwise time.sleep(poll_interval)
\* begins
ClientCheck ==
    /\ cpc = "poll"
    /\ InTime(celapsed, ctimeout)
    /\ IF resp_files[ccmd] \in {"completed", "failed"}
       THEN /\ cresponse' = <<[command_id |-> ccmd, status |-> resp_files[ccmd]]>>
            /\ cpc' = "rm_command"
            /\ UNCHANGED cwake
       ELSE /\ cwake' = celapsed + cpoll
            /\ cpc' = "sleep"
            /\ UNCHANGED cresponse
    /\ UNCHANGED <<runVars, hookVars, callVars, cmd_files, resp_files, next_id, ccmd,
                   ctimeout, cpoll, celapsed, timed_out, handlerVars>>

\* one clock tick passes inside time.sleep(poll_interval); the sleep ends
\* when poll_interval has passed
ClientSleep ==
    /\ cpc = "sleep"
    /\ celapsed' = celapsed + 1
    /\ cpc' = IF celapsed + 1 >= cwake THEN "poll" ELSE "sleep"
    /\ UNCHANGED <<runVars, hookVars, callVars, cmd_files, resp_files, next_id, ccmd,
                   ctimeout, cpoll, cwake, cresponse, timed_out, handlerVars>>

\* send_command with the clock running during its sleeps
TimedClient ==
    \/ \E t \in CommandTypes, timeout \in 0..MaxTimeout, pi \in 1..MaxPoll :
            ClientSend(t, timeout, pi)
    \/ ClientCheck
    \/ ClientSleep
    \/ ClientRemoveCommand
    \/ ClientRemoveResponse
    \/ ClientTimeout
    \/ ClientRaise

NextTimedIPC == TimedClient \/ Handler

SpecTimedIPC == Init /\ [][NextTimedIPC]_vars

\* ------------------------------------------------- claims on IPC with a clock
\* C21: a send_command call whose worker completed a response with status
\* failed before the deadline (elapsed < timeout) returns that response and
\* does not raise TimeoutError; a call that raised TimeoutError returned no
\* response, and a call that returned carries a response.
C21_FailedAnswerIsReturned ==
    /\ cpc = "raised" =>
          /\ cresponse = <<>>
          /\ ~(resp_files[ccmd] = "failed" /\ answered_at >= 0 /\ answered_at < ctimeout)
    /\ cpc = "returned" => cresponse # <<>>

\* ------------------------------------------------------------ rounds
\* SimulationRunState.max_recent_actions
max_recent_actions == 50

allRoundVars == <<run_states, state_file, processes, platform_arg, procVars, logVars,
                  mpc, position, spc, ipcVars, hookVars, start_log, envVars, cleanup_log,
                  writers, stdout_files, read_errors, batch, earlier>>

\* a line of actions.jsonl: an action or a round event of round round; seq
\* numbers the platform's log_action calls (agent, action type, timestamp)
RoundLine(kind, platform, round, seq) ==
    [kind |-> kind, platform |-> platform, round |-> round, seq |-> seq]

\* PlatformActionLogger: one line appended to platform p's actions.jsonl
AppendRoundLine(p, line) ==
    round_log' = [round_log EXCEPT ![p] = Append(@, line)]

\* log_round_start(0, 0) before the initial posts, and
\* log_round_start(round_num + 1, simulated_hour) in the main loop
LogRoundStart(p) ==
    /\ \/ wround[p].phase = "before"
       \/ wround[p].phase = "closed" /\ wround[p].round < MaxRounds
    /\ LET r == IF wround[p].phase = "before" THEN 0 ELSE wround[p].round + 1 IN
         /\ AppendRoundLine(p, RoundLine("round_start", p, r, 0))
         /\ wround' = [wround EXCEPT ![p].round = r, ![p].phase = "open"]
    /\ UNCHANGED <<allRoundVars, round_state, ingested>>

\* log_action(round_num=0, ...) for an initial post, and
\* log_action(round_num=round_num + 1, ...) for each action of the round
LogRoundAction(p, limit) ==
    /\ wround[p].phase = "open"
    /\ wround[p].n < limit
    /\ AppendRoundLine(p, RoundLine("action", p, wround[p].round, wround[p].n + 1))
    /\ wround' = [wround EXCEPT ![p].n = @ + 1]
    /\ UNCHANGED <<allRoundVars, round_state, ingested>>

\* log_round_end(0, initial_action_count) and
\* log_round_end(round_num + 1, round_action_count)
LogRoundEnd(p) ==
    /\ wround[p].phase = "open"
    /\ AppendRoundLine(p, RoundLine("round_end", p, wround[p].round, 0))
    /\ wround' = [wround EXCEPT ![p].phase = "closed"]
    /\ UNCHANGED <<allRoundVars, round_state, ingested>>

\* the first n elements of a sequence
Prefix(seq, n) == SubSeq(seq, 1, IF Len(seq) < n THEN Len(seq) ELSE n)

\* an add_action that keeps the oldest entries
AddRecentAction_KeepOldest(recent, action) ==
    IF Len(recent) >= max_recent_actions THEN recent ELSE <<action>> \o recent

\* add_action: recent_actions.insert(0, action), cut to max_recent_actions
AddRecentAction(recent, action) ==
    Prefix(<<action>> \o recent, max_recent_actions)

\* if action.round_num and action.round_num > state.current_round:
\*     state.current_round = action.round_num
ActionRound(rs, line) ==
    IF line.round # 0 /\ line.round > rs.current_round
    THEN [rs EXCEPT !.current_round = line.round]
    ELSE rs

\* a round_end branch that assigns the round number of the line
RoundEnd_Assign(rs, p, round_num) ==
    [rs EXCEPT !.platform_round[p] = round_num, !.current_round = round_num]

\* the round_end branch of _read_action_log
RoundEnd(rs, p, round_num) ==
    LET rs1 == IF round_num > rs.platform_round[p]
               THEN [rs EXCEPT !.platform_round[p] = round_num]
               ELSE rs
    IN IF round_num > rs1.current_round
       THEN [rs1 EXCEPT !.current_round = round_num]
       ELSE rs1

\* the body of the "for line in f" loop of _read_action_log for one whole
\* line, as far as the round fields and recent_actions go
ApplyRoundLine(rs, p, line) ==
    IF line.kind = "round_end" THEN RoundEnd(rs, p, line.round)
    ELSE IF line.kind = "round_start" THEN rs
    ELSE ActionRound([rs EXCEPT !.recent_actions = AddRecentAction(@, line)], line)

\* _read_action_log takes the next line of platform p's log
IngestRoundLine(p) ==
    /\ round_log[p] # <<>>
    /\ round_state' = ApplyRoundLine(round_state, p, Head(round_log[p]))
    /\ round_log' = [round_log EXCEPT ![p] = Tail(@)]
    /\ ingested' = IF Head(round_log[p]).kind = "action"
                   THEN <<Head(round_log[p])>> \o ingested
                   ELSE ingested
    /\ UNCHANGED <<allRoundVars, wround>>

\* ------------------------------------------------- specification: rounds
\* both platforms of a run log their rounds, the monitor ingests the lines
NextRounds ==
    \E p \in Platforms :
        \/ LogRoundStart(p)
        \/ LogRoundAction(p, MaxRoundActions)
        \/ LogRoundEnd(p)
        \/ IngestRoundLine(p)

SpecRounds == Init /\ [][NextRounds]_vars

\* ------------------------------------------------- claims on rounds
\* the larger of two numbers
Max(a, b) == IF a > b THEN a ELSE b

\* C22: at every point current_round is the maximum of twitter_current_round
\* and reddit_current_round.
C22_CurrentRoundIsMax ==
    round_state.current_round =
        Max(round_state.platform_round["twitter"], round_state.platform_round["reddit"])

\* ------------------------------------------------- specification: recent actions
\* one platform logs up to MaxIngest actions, the monitor ingests them
NextRecent ==
    \/ LogRoundStart("twitter")
    \/ LogRoundAction("twitter", MaxIngest)
    \/ LogRoundEnd("twitter")
    \/ IngestRoundLine("twitter")

SpecRecent == Init /\ [][NextRecent]_vars

\* C23: recent_actions holds at most max_recent_actions entries, and they
\* are the most recently ingested actions, newest first.
C23_RecentActionsNewestFirst ==
    LET recent == round_state.recent_actions IN
    /\ Len(recent) <= max_recent_actions
    /\ Len(recent) = IF Len(ingested) < max_recent_actions
                     THEN Len(ingested) ELSE max_recent_actions
    /\ \A i \in 1..Len(recent) : recent[i] = ingested[i]

\* more actions than the buffer holds were ingested, the oldest are dropped
C23_Witness ==
    /\ Len(ingested) > max_recent_actions
    /\ Len(round_state.recent_actions) = max_recent_actions
    /\ round_state.recent_actions[1].seq = Len(ingested)

\* ------------------------------------------------------------ writers of run_state.json
\* thread t is inside _save_run_state's "with open(state_file, 'w')" block
\* for run r
Inside(t, r) == <<t, r>> \in writers

\* the monitor thread reaches "with open(state_file, 'w')" in one of its
\* _save_run_state calls: the file is truncated, json.dump follows
MonitorSaveOpen(r) ==
    /\ mpc[r] \in {"save", "final_save"}
    /\ ~Inside("monitor", r)
    /\ writers' = writers \cup {<<"monitor", r>>}
    /\ state_file' = [state_file EXCEPT ![r] = <<>>]
    /\ UNCHANGED <<ipcVars, start_log, envVars, cleanup_log, roundVars, read_errors, batch, earlier, stdout_files, hookVars, run_states,
                   processes, platform_arg, procVars, logVars, mpc, position, spc>>

\* the thread in stop_simulation has set STOPPED on the state and reaches
\* "with open(state_file, 'w')" in the _save_run_state call that follows
StopSaveOpen(r) ==
    /\ spc[r] = "mark"
    /\ ~Inside("stop", r)
    /\ writers' = writers \cup {<<"stop", r>>}
    /\ run_states' = [run_states EXCEPT ![r] = <<MarkStopped(St(r))>>]
    /\ state_file' = [state_file EXCEPT ![r] = <<>>]
    /\ UNCHANGED <<ipcVars, start_log, envVars, cleanup_log, roundVars, read_errors, batch, earlier, stdout_files, hookVars,
                   processes, platform_arg, procVars, logVars, mpc, position, spc>>

\* the monitor thread with its saves in two steps
MonitorWithSaves(r) ==
    \/ MonitorPoll(r)
    \/ \E p \in Platforms : MonitorRead(r, p)
    \/ MonitorSaveOpen(r)
    \/ Inside("monitor", r) /\ MonitorSave(r)
    \/ \E p \in Platforms : MonitorFinalRead(r, p)
    \/ MonitorClassify(r)
    \/ Inside("monitor", r) /\ MonitorFinalSave(r)
    \/ MonitorFinally(r)

\* stop_simulation with its last save in two steps
StopWithSaves(r) ==
    \/ StopBegin(r)
    \/ StopSignal(r)
    \/ StopWait(r)
    \/ StopEscalate(r)
    \/ StopSaveOpen(r)
    \/ Inside("stop", r) /\ StopMark(r)

\* ------------------------------------------------- specification: saves
NextSave ==
    \E r \in OneRun :
        \/ Prepare(r)
        \/ FirstStart(r, "twitter", {"twitter"})
        \/ LogSimulationStart(r, "twitter", 3)
        \/ \E code \in {0, 1} : WorkerExit(r, code)
        \/ MonitorWithSaves(r)
        \/ StopWithSaves(r)

SpecSave == Init /\ [][NextSave]_vars

\* C24: no two supervisor threads are at the same time inside _save_run_state
\* writing run_state.json of the same run.
C24_SingleWriter ==
    \A r \in Runs : \A t1, t2 \in {"monitor", "stop"} :
        Inside(t1, r) /\ Inside(t2, r) => t1 = t2

\* ------------------------------------------------------------ the cleanup flag
\* if cls._cleanup_done: return
CleanupCheck ==
    /\ hstack # <<>>
    /\ Top.pc = "guard"
    /\ hstack' = SetTop([Top EXCEPT !.pc = IF cleanup_done THEN "after" ELSE "set"])
    /\ UNCHANGED <<runVars, ipcVars, callVars, cleanup_done, host, signals, hook_owned>>

\* cls._cleanup_done = True
\* if not has_processes and not has_updaters: return
\* processes = list(cls._processes.items())
CleanupSet ==
    /\ hstack # <<>>
    /\ Top.pc = "set"
    /\ cleanup_done' = TRUE
    /\ hook_owned' = IF cleanup_done THEN hook_owned
                     ELSE {r \in processes : proc[r] = "alive"}
    /\ IF processes = {}
       THEN hstack' = SetTop([Top EXCEPT !.pc = "after"])
       ELSE \E o \in Orders(processes) :
                hstack' = SetTop([Top EXCEPT !.pc = "next", !.todo = o])
    /\ UNCHANGED <<runVars, ipcVars, callVars, host, signals>>

\* ------------------------------------------------- specification: the hook
\* two runs and the host's shutdown hook, the check of the flag and its
\* setting as two steps with signals in between
NextHook ==
    \/ \E r \in Runs :
        \/ /\ host = "running" /\ hstack = <<>>
           /\ FirstStart(r, "parallel", {})
        \/ Prepare(r)
        \/ \E code \in {0, 1} : WorkerExit(r, code)
    \/ ShutdownSignal
    \/ ServerReturns
    \/ AtExit
    \/ CleanupCheck
    \/ CleanupSet
    \/ CleanupTerminate
    \/ CleanupWait
    \/ CleanupEscalate
    \/ CleanupMark
    \/ CleanupClear
    \/ HandlerRaise
    \/ AtExitReturn

SpecHook == Init /\ [][NextHook]_vars

\* the statements of cleanup_all_simulations after the flag
BodyPcs == {"next", "wait", "mark"}

\* the call on top of the stack moves on from position pc
TopLeaves(pc) ==
    /\ hstack # <<>>
    /\ Top.pc = pc
    /\ Len(hstack') = Len(hstack)
    /\ hstack'[Len(hstack)].pc # pc

\* C25: the body of cleanup_all_simulations runs at most once per host
\* process: the flag stays set, the body is never entered with the flag set,
\* no two calls are inside the body, and a call that finds the flag set
\* returns without signalling a process or writing a state.
C25_CleanupBodyOnce ==
    /\ [][cleanup_done => cleanup_done']_vars
    /\ [][TopLeaves("set") => ~cleanup_done]_vars
    /\ [](Cardinality({i \in 1..Len(hstack) : hstack[i].pc \in BodyPcs}) <= 1)
    /\ [][(TopLeaves("guard") /\ cleanup_done) =>
            /\ hstack'[Len(hstack)].pc = "after"
            /\ UNCHANGED <<proc, returncode, shutdown_event, run_states, state_file,
                           processes>>]_vars

\* a signal arrived while a cleanup was inside its body; the handler's call
\* found the flag set and is about to leave
C25_Witness ==
    /\ Len(hstack) = 2
    /\ hstack[1].pc \in BodyPcs
    /\ hstack[2].kind = "handler"
    /\ hstack[2].pc = "after"
    /\ cleanup_done
    /\ \E r \in Runs : proc[r] = "alive"

\* ------------------------------------------------- claims on the final read
\* platform p's log holds a whole line of the kind
LineLogged(r, p, kind) ==
    \E i \in 1..Len(log_data[r][p]) :
        /\ i + 2 <= Len(log_data[r][p])
        /\ SubSeq(log_data[r][p], i, i + 2) = LineBytes(kind)

\* C26: when the monitor is about to classify the worker's exit, every
\* complete line the worker appended before it exited has been ingested: the
\* action counters equal the action lines of the logs and a platform is
\* marked completed exactly when its log holds simulation_end.
C26_FinalPassIngestsAll ==
    \A r \in OneRun :
        mpc[r] = "classify" =>
            \A p \in Platforms :
                /\ St(r).actions_count[p] = ActionsLogged(r, p)
                /\ St(r).completed[p] <=> LineLogged(r, p, "simulation_end")

\* ------------------------------------------------- claims on the escalation
\* SIGKILL reaches the worker of run r in this step
Killed(r) ==
    /\ proc[r] = "alive"
    /\ proc'[r] = "exited"
    /\ returncode'[r] = -9

\* C27: in stop_simulation SIGKILL is sent only after SIGTERM was sent and
\* the wait for the worker's exit is in progress with the worker alive, and
\* the wait is only left for the STOPPED mark with the worker gone.
C27_KillOnlyAfterTerm ==
    /\ [][\A r \in OneRun :
            Killed(r) => (spc[r] = "wait" /\ shutdown_event[r] = 1)]_vars
    /\ [][\A r \in OneRun :
            (spc[r] = "wait" /\ spc'[r] = "mark") => proc'[r] = "exited"]_vars
    /\ [][\A r \in OneRun :
            (spc[r] = "wait" /\ spc'[r] = "done") => FALSE]_vars

\* a stop whose grace wait expired: SIGTERM was delivered, the worker stayed
\* alive and was killed, and stop_simulation has marked the run STOPPED
C27_Witness ==
    \E r \in OneRun :
        /\ spc[r] = "done"
        /\ shutdown_event[r] = 1
        /\ proc[r] = "exited"
        /\ returncode[r] = -9
        /\ state_file[r] # <<>>
        /\ state_file[r][1].runner_status = "stopped"

\* ------------------------------------------------------------ the mailbox
\* send_command called by another request thread of the host: its command
\* file appears in ipc_commands under a fresh uuid4 (the wait of that call is
\* not followed)
OtherSend(type) ==
    /\ next_id < MaxCommands
    /\ next_id' = next_id + 1
    /\ cmd_files' = [cmd_files EXCEPT ![next_id + 1] = type]
    /\ UNCHANGED <<runVars, hookVars, callVars, resp_files, cpc, ccmd, ctimeout, cpoll,
                   celapsed, cresponse, timed_out, cwake, handlerVars>>

\* two request threads and the worker's command handler
NextMailbox ==
    \/ \E t \in CommandTypes : OtherSend(t)
    \/ Client
    \/ Handler

SpecMailbox == Init /\ [][NextMailbox]_vars

\* ------------------------------------------------- claims on the mailbox
\* the command files present in ipc_commands
Present == {c \in CommandIds : cmd_files[c] # "none"}

\* C28: one call of process_commands carries out at most one command, the one
\* taken at its poll, which is the oldest command file present at that poll;
\* the worker deletes a command file only when the complete response file of
\* that command is on disk.
C28_OldestOnePerCall ==
    /\ [][(hpc = "idle" /\ hpc' # "idle") =>
            /\ hcmd' \in Present
            /\ \A d \in Present : hcmd' <= d]_vars
    /\ [][hpc # "idle" => hcmd' = hcmd]_vars
    /\ [][executed' # executed =>
            /\ executed' = executed \cup {hcmd}
            /\ hpc = "handle"
            /\ hpc' # "handle"]_vars
    /\ [][\A c \in CommandIds :
            (c \in Present /\ cmd_files'[c] = "none" /\ hpc' # hpc) =>
                /\ c = hcmd
                /\ resp_files[c] \in {"completed", "failed"}]_vars

\* two command files were present at the poll and the older one was taken
C28_Witness ==
    /\ hpc = "handle"
    /\ Cardinality(Present) = 2
    /\ hcmd = 1

\* ------------------------------------------------------------ monitor exits
\* the positions of the monitor thread inside its try block at which a call
\* can raise: _save_run_state (_read_action_log catches its own exceptions)
TryPcs == {"save", "final_save"}

\* except Exception as e: FAILED with str(e) as error, saved
MonitorFailed(st) ==
    [st EXCEPT !.runner_status = "failed", !.error = "monitor_exception"]

\* a monitor thread that ends at the exception without its finally block
MonitorException_Return(r) ==
    /\ mpc[r] \in TryPcs
    /\ run_states' = [run_states EXCEPT ![r] = <<MonitorFailed(St(r))>>]
    /\ state_file' = [state_file EXCEPT ![r] = <<MonitorFailed(St(r))>>]
    /\ mpc' = [mpc EXCEPT ![r] = "done"]
    /\ UNCHANGED <<ipcVars, callVars, hookVars, processes, platform_arg, procVars,
                   logVars, position, spc>>

\* a call inside the try block raises: the except clause marks the state
\* FAILED and saves it, the finally block follows
MonitorException(r) ==
    /\ mpc[r] \in TryPcs
    /\ run_states' = [run_states EXCEPT ![r] = <<MonitorFailed(St(r))>>]
    /\ state_file' = [state_file EXCEPT ![r] = <<MonitorFailed(St(r))>>]
    /\ mpc' = [mpc EXCEPT ![r] = "finally"]
    /\ UNCHANGED <<ipcVars, callVars, hookVars, processes, platform_arg, procVars,
                   logVars, position, spc>>

\* the monitor thread of run r with both ways out of its try block
MonitorThread(r) == Monitor(r) \/ MonitorException(r)

\* one run whose platforms log their start event, a worker that exits with
\* any code, and a monitor whose calls can raise
NextMonitor ==
    \E r \in OneRun :
        \/ Prepare(r)
        \/ \E a \in PlatformArgs : FirstStart(r, a, Declared(a))
        \/ \E p \in Platforms : LogSimulationStart(r, p, 3)
        \/ \E code \in {0, 1} : WorkerExit(r, code)
        \/ MonitorThread(r)

\* the monitor thread keeps running while it has a step to take
FairSpecMonitor ==
    Init /\ [][NextMonitor]_vars /\ \A r \in OneRun : WF_vars(MonitorThread(r))

\* ------------------------------------------------- claims on the monitor's exit
\* C29: a monitor thread whose worker has exited begins no further tick and
\* ends; when it has ended, by classification or by exception, the run has no
\* entry in the process registry and no registered log handle.
C29_MonitorEndsAndReleases ==
    /\ \A r \in OneRun :
          [](mpc[r] = "done" => (r \notin processes /\ r \notin stdout_files))
    /\ \A r \in OneRun :
          (proc[r] = "exited" /\ mpc[r] \notin {"none", "done"}) ~> (mpc[r] = "done")
    /\ [][\A r \in OneRun :
            (proc[r] = "exited" /\ mpc[r] = "poll" /\ mpc'[r] # "poll")
                => mpc'[r] = "final_twitter"]_vars

\* the monitor ended through its except clause after the worker's exit
C29_Witness ==
    \E r \in OneRun :
        /\ mpc[r] = "done"
        /\ proc[r] = "exited"
        /\ St(r).error = "monitor_exception"
        /\ r \notin processes

\* ------------------------------------------------------------ the caller's wait
\* the steps of the thread inside send_command after the command was written
ClientStep ==
    \/ ClientCheck
    \/ ClientSleep
    \/ ClientRemoveCommand
    \/ ClientRemoveResponse
    \/ ClientTimeout
    \/ ClientRaise

\* the calling thread keeps running; nothing is required of the worker
FairSpecTimedIPC == Init /\ [][NextTimedIPC]_vars /\ WF_vars(ClientStep)

\* ------------------------------------------------- claims on the caller's wait
\* C30: a send_command call that waits ends by returning or by raising
\* TimeoutError, and at every point of a call the time passed since its
\* start is below timeout + poll_interval, whatever the worker does.
C30_SendCommandTerminates ==
    /\ [](cpc # "idle" => celapsed < ctimeout + cpoll)
    /\ (cpc \in {"poll", "sleep"}) ~> (cpc \in {"returned", "raised"})

\* a call raised TimeoutError with a response file on disk that does not parse
C30_Witness ==
    /\ cpc = "raised"
    /\ resp_files[ccmd] = "partial"
    /\ ctimeout > 0
    /\ celapsed >= ctimeout

\* ------------------------------------------------------------ any round numbers
\* a line appended to platform p's actions.jsonl that carries any round
\* number, whatever the lines before it carried
LogAnyLine(p, kind, round) ==
    /\ wround["twitter"].n + wround["reddit"].n < MaxAnyLines
    /\ AppendRoundLine(p, RoundLine(kind, p, round, wround[p].n + 1))
    /\ wround' = [wround EXCEPT ![p].n = @ + 1]
    /\ UNCHANGED <<allRoundVars, round_state, ingested>>

\* logs with arbitrary round numbers, ingested in any order of the platforms
NextAnyRounds ==
    \E p \in Platforms :
        \/ \E kind \in {"action", "round_end"}, round \in 0..(MaxRounds + 1) :
                LogAnyLine(p, kind, round)
        \/ IngestRoundLine(p)

SpecAnyRounds == Init /\ [][NextAnyRounds]_vars

\* C31: no step lowers current_round or a platform's current round.
C31_RoundsNeverDecrease ==
    [][/\ round_state'.current_round >= round_state.current_round
       /\ \A p \in Platforms :
            round_state'.platform_round[p] >= round_state.platform_round[p]]_vars

\* the newest ingested action carries a lower round number than the one
\* before it, and the platforms have reached different rounds
C31_Witness ==
    /\ Len(ingested) >= 2
    /\ ingested[1].round < ingested[2].round
    /\ round_state.current_round >= ingested[2].round
    /\ round_state.platform_round["twitter"] > round_state.platform_round["reddit"]
    /\ round_state.platform_round["reddit"] > 0
    /\ round_log = [p \in Platforms |-> <<>>]

\* ------------------------------------------------------------ read errors
\* _read_action_log when an exception is raised after k lines of the pass
\* were handled (k = 0: open raises): the except clause returns the offset
\* the call was given
ReadActionLogError(st, p, data, pos, exists, k) ==
    [state |-> ApplyLines(st, p,
                          SubSeq(SplitLines(SubSeq(data, pos + 1, Len(data))), 1, k),
                          exists),
     position |-> pos]

\* the lines a pass over platform p's log would handle
UnreadLines(r, p) ==
    SplitLines(SubSeq(log_data[r][p], position[r][p] + 1, Len(log_data[r][p])))

\* a read error that ends the monitor thread through its except clause
MonitorReadError_Raise(r, p, k) ==
    /\ mpc[r] = ReadPc(p)
    /\ LogExists(r, p)
    /\ read_errors < MaxReadErrors
    /\ k \in 0..Len(UnreadLines(r, p))
    /\ run_states' = [run_states EXCEPT ![r] =
                        <<[St(r) EXCEPT !.runner_status = "failed",
                                        !.error = "read_error"]>>]
    /\ mpc' = [mpc EXCEPT ![r] = "finally"]
    /\ read_errors' = read_errors + 1
    /\ UNCHANGED <<ipcVars, start_log, envVars, cleanup_log, roundVars, writers,
                   stdout_files, batch, earlier, hookVars, state_file, processes, platform_arg,
                   procVars, logVars, position, spc>>

\* one pass of the loop body over platform p's log in which the read raises
\* after k lines: the monitor goes on with the offset it had
MonitorReadError(r, p, k) ==
    /\ mpc[r] = ReadPc(p)
    /\ LogExists(r, p)
    /\ read_errors < MaxReadErrors
    /\ k \in 0..Len(UnreadLines(r, p))
    /\ LET res == ReadActionLogError(St(r), p, log_data[r][p], position[r][p],
                                     ExistingLogs(r), k)
       IN /\ run_states' = [run_states EXCEPT ![r] = <<res.state>>]
          /\ position' = [position EXCEPT ![r][p] = res.position]
    /\ mpc' = [mpc EXCEPT ![r] = IF p = "twitter" THEN "read_reddit" ELSE "save"]
    /\ read_errors' = read_errors + 1
    /\ UNCHANGED <<ipcVars, start_log, envVars, cleanup_log, roundVars, writers,
                   stdout_files, batch, earlier, hookVars, state_file, processes, platform_arg,
                   procVars, logVars, spc>>

\* one run whose log reads can fail
NextReadErrors ==
    \/ NextLog
    \/ \E r \in OneRun, p \in Platforms, k \in 0..3 : MonitorReadError(r, p, k)

SpecReadErrors == Init /\ [][NextReadErrors]_vars

\* ------------------------------------------------- claims on read errors
\* a read pass of run r ends in the except clause of _read_action_log
ReadFailed == read_errors' > read_errors

\* C32: a read pass that ends in an error leaves the offset as it was, the
\* monitor goes on to the next statement of its loop, and the run is not
\* marked FAILED and gets no error text by it.
C32_ReadErrorSwallowed ==
    [][\A r \in OneRun :
          (ReadFailed /\ mpc[r] \in {"read_twitter", "read_reddit"}) =>
              /\ position' = position
              /\ mpc'[r] = (IF mpc[r] = "read_twitter" THEN "read_reddit" ELSE "save")
              /\ St(r)'.runner_status # "failed"
              /\ St(r)'.error = St(r).error
              /\ state_file' = state_file]_vars

\* after a failed pass the bytes were read again: the run is classified
\* COMPLETED with its action counted
C32_Witness ==
    \E r \in OneRun :
        /\ read_errors = 1
        /\ mpc[r] = "done"
        /\ St(r).runner_status = "completed"
        /\ St(r).actions_count["twitter"] = 1
        /\ ActionsLogged(r, "twitter") = 1

\* C37: a read pass that ends in an error has changed nothing of the state.
C37_FailedPassAppliesNothing ==
    [][ReadFailed => run_states' = run_states]_vars

\* ------------------------------------------------------------ batch interviews
Agents == 1..MaxAgents

\* an item of the interviews list: agent_id and the optional platform key
\* ("none": the key is absent)
Items == [agent_id : Agents, platform : {"none"} \cup Platforms]

\* the interviews lists of one to MaxBatch items
RECURSIVE SeqsUpTo(_)
SeqsUpTo(n) ==
    IF n = 0 THEN {<<>>}
    ELSE LET shorter == SeqsUpTo(n - 1) IN
         shorter \cup {Append(s, i) : s \in {t \in shorter : Len(t) = n - 1}, i \in Items}

Batches == SeqsUpTo(MaxBatch) \ {<<>>}

\* all the variables but batch
allBatchVars == <<run_states, state_file, processes, platform_arg, procVars, logVars,
                  mpc, position, spc, ipcVars, hookVars, start_log, envVars, cleanup_log,
                  roundVars, read_errors, writers, stdout_files, earlier>>

\* item_platform = interview.get("platform", platform)
ItemPlatform(item, platform) ==
    IF item.platform # "none" THEN item.platform ELSE platform

\* a grouping that sends the unpinned items to Twitter only
PlatformInterviews_TwitterOnly(interviews, platform, envs, p) ==
    LET Pinned(i) == ItemPlatform(i, platform) = p
        Both(i) == ItemPlatform(i, platform) \notin Platforms
    IN SelectSeq(interviews, Pinned)
         \o (IF p \in envs /\ p = "twitter" THEN SelectSeq(interviews, Both) ELSE <<>>)

\* twitter_interviews / reddit_interviews after the grouping: the items of
\* platform p, then the items without platform when p's environment exists
PlatformInterviews(interviews, platform, envs, p) ==
    LET Pinned(i) == ItemPlatform(i, platform) = p
        Both(i) == ItemPlatform(i, platform) \notin Platforms
    IN SelectSeq(interviews, Pinned)
         \o (IF p \in envs THEN SelectSeq(interviews, Both) ELSE <<>>)

\* the agent ids of a list of items
AgentIds(list) == {list[i].agent_id : i \in 1..Len(list)}

\* twitter_actions / reddit_actions: one ManualAction per agent that
\* get_agent finds; issued by env.step when there is any
IssuedOn(interviews, platform, envs, known, p) ==
    IF p \in envs
    THEN AgentIds(PlatformInterviews(interviews, platform, envs, p)) \cap known
    ELSE {}

\* the keys "{platform}_{agent_id}" written to results for platform p: one
\* per item of the platform's list, when env.step was called
ResultKeys(interviews, platform, envs, known, p) ==
    IF IssuedOn(interviews, platform, envs, known, p) # {}
    THEN {<<p, a>> : a \in AgentIds(PlatformInterviews(interviews, platform, envs, p))}
    ELSE {}

\* handle_batch_interview(command_id, interviews, platform) in a worker whose
\* environments are envs and whose agent graphs hold the agents known
HandleBatchInterview(interviews, platform, envs, known) ==
    /\ batch = <<>>
    /\ LET keys == UNION {ResultKeys(interviews, platform, envs, known, p) : p \in Platforms}
       IN batch' = <<[interviews |-> interviews,
                      platform |-> platform,
                      envs |-> envs,
                      known |-> known,
                      issued |-> [p \in Platforms |->
                                    IssuedOn(interviews, platform, envs, known, p)],
                      results |-> keys,
                      status |-> IF keys # {} THEN "completed" ELSE "failed"]>>
    /\ UNCHANGED allBatchVars

\* one batch interview command handled by a worker
NextBatch ==
    \E interviews \in Batches, platform \in {"none"} \cup Platforms,
       envs \in (SUBSET Platforms) \ {{}}, known \in SUBSET Agents :
        HandleBatchInterview(interviews, platform, envs, known)

SpecBatch == Init /\ [][NextBatch]_vars

\* ------------------------------------------------- claims on batch interviews
\* the latest call
BatchCall == batch[1]

\* no platform at request level and none at item level
Unqualified ==
    /\ BatchCall.platform = "none"
    /\ \A i \in 1..Len(BatchCall.interviews) : BatchCall.interviews[i].platform = "none"

\* the platforms the items of agent a are pinned to, by the item or by the
\* request
PinnedTo(a) ==
    {IF BatchCall.interviews[i].platform # "none" THEN BatchCall.interviews[i].platform ELSE BatchCall.platform :
        i \in {j \in 1..Len(BatchCall.interviews) : BatchCall.interviews[j].agent_id = a}}

EarlierPc(pc) ==
    IF pc \in {"poll", "read_twitter", "read_reddit", "save"} THEN "loop"
    ELSE IF pc \in {"final_twitter", "final_reddit", "classify", "final_save"} THEN "final"
    ELSE IF pc = "finally" THEN "finally"
    ELSE "done"

\* all the variables the steps of a displaced launch leave alone, but for
\* the registries and the state
allEarlierVars == <<platform_arg, procVars, logVars, mpc, position, spc, ipcVars, hookVars,
                    start_log, envVars, cleanup_log, roundVars, read_errors, writers, batch>>

\* start_simulation succeeds while the worker or the monitor thread of the
\* run's previous launch is still there: the status is not STARTING or
\* RUNNING, so the first check passes; a new state object, worker and monitor
\* thread take the run's place in the registries (no stop_simulation call is
\* under way)
Relaunch(r, platform, launched) ==
    /\ Len(start_log[r]) < MaxStarts
    /\ run_states[r] # <<>>
    /\ StartCheck(GetRunState(r), sim_files[r], FALSE, FALSE, TRUE) = "launch"
    /\ ~Quiescent(r)
    /\ spc[r] \in {"idle", "done"}
    /\ earlier[r] = <<>>
    /\ launched \subseteq Declared(platform)
    /\ earlier' = [earlier EXCEPT ![r] = <<[proc |-> proc[r],
                                            returncode |-> returncode[r],
                                            mpc |-> EarlierPc(mpc[r]),
                                            state |-> St(r)]>>]
    /\ LET st == [NewState EXCEPT
                    !.runner_status = "running",
                    !.running = [p \in Platforms |-> p \in Declared(platform)],
                    !.process_pid = "pid"]
       IN /\ run_states' = [run_states EXCEPT ![r] = <<st>>]
          /\ state_file' = [state_file EXCEPT ![r] = <<st>>]
    /\ processes' = processes \cup {r}
    /\ stdout_files' = stdout_files \cup {r}
    /\ platform_arg' = [platform_arg EXCEPT ![r] = platform]
    /\ proc' = [proc EXCEPT ![r] = "alive"]
    /\ shutdown_event' = [shutdown_event EXCEPT ![r] = 0]
    /\ wphase' = [wphase EXCEPT ![r] =
                    [p \in Platforms |-> IF p \in launched THEN "init" ELSE "off"]]
    /\ wmain' = [wmain EXCEPT ![r] = "sim"]
    /\ mpc' = [mpc EXCEPT ![r] = "poll"]
    /\ position' = [position EXCEPT ![r] = [p \in Platforms |-> 0]]
    /\ start_log' = [start_log EXCEPT ![r] = Append(@, "started")]
    /\ sim_files' = [sim_files EXCEPT ![r] = @ \cup {MainLog}]
    /\ UNCHANGED <<ipcVars, hookVars, returncode, log_data, pend, spc, env_status,
                   cleanup_log, roundVars, read_errors, writers, batch>>

\* the worker of the displaced launch ends
EarlierWorkerExit(r, code) ==
    /\ earlier[r] # <<>>
    /\ earlier[r][1].proc = "alive"
    /\ earlier' = [earlier EXCEPT ![r][1].proc = "exited", ![r][1].returncode = code]
    /\ UNCHANGED <<allEarlierVars, run_states, state_file, processes, stdout_files>>

\* the displaced monitor thread, in its loop with its worker alive:
\* _save_run_state(state) writes its own state object to run_state.json and
\* puts it into _run_states
EarlierMonitorSave(r) ==
    /\ earlier[r] # <<>>
    /\ earlier[r][1].mpc = "loop"
    /\ earlier[r][1].proc = "alive"
    /\ run_states' = [run_states EXCEPT ![r] = <<earlier[r][1].state>>]
    /\ state_file' = [state_file EXCEPT ![r] = <<earlier[r][1].state>>]
    /\ UNCHANGED <<allEarlierVars, earlier, processes, stdout_files>>

\* while process.poll() is None fails for the displaced monitor thread
EarlierMonitorPoll(r) ==
    /\ earlier[r] # <<>>
    /\ earlier[r][1].mpc = "loop"
    /\ earlier[r][1].proc # "alive"
    /\ earlier' = [earlier EXCEPT ![r][1].mpc = "final"]
    /\ UNCHANGED <<allEarlierVars, run_states, state_file, processes, stdout_files>>

\* the displaced monitor thread classifies its worker's exit on its own
\* state object and saves it
EarlierMonitorClassify(r) ==
    /\ earlier[r] # <<>>
    /\ earlier[r][1].mpc = "final"
    /\ LET st == Classify(earlier[r][1].state, earlier[r][1].returncode) IN
         /\ run_states' = [run_states EXCEPT ![r] = <<st>>]
         /\ state_file' = [state_file EXCEPT ![r] = <<st>>]
         /\ earlier' = [earlier EXCEPT ![r][1].mpc = "finally", ![r][1].state = st]
    /\ UNCHANGED <<allEarlierVars, processes, stdout_files>>

\* finally of the displaced monitor thread: cls._processes.pop(simulation_id),
\* cls._stdout_files[simulation_id].close() and pop, by the run's id
EarlierMonitorFinally(r) ==
    /\ earlier[r] # <<>>
    /\ earlier[r][1].mpc = "finally"
    /\ processes' = processes \ {r}
    /\ stdout_files' = stdout_files \ {r}
    /\ earlier' = [earlier EXCEPT ![r][1].mpc = "done"]
    /\ UNCHANGED <<allEarlierVars, run_states, state_file>>

\* the monitor thread of the displaced launch
EarlierMonitor(r) ==
    \/ EarlierMonitorSave(r)
    \/ EarlierMonitorPoll(r)
    \/ EarlierMonitorClassify(r)
    \/ EarlierMonitorFinally(r)

\* one run on one platform that is started, stopped or completed, and
\* started again
NextRelaunch ==
    \E r \in OneRun :
        \/ Prepare(r)
        \/ FirstStart(r, "twitter", Declared("twitter"))
        \/ LogSimulationStart(r, "twitter", 3)
        \/ LogSimulationEnd(r, "twitter", 3)
        \/ \E code \in {0, 1} : WorkerExit(r, code)
        \/ Monitor(r)
        \/ StopSimulation(r)
        \/ Relaunch(r, "twitter", Declared("twitter"))
        \/ \E code \in {0, 1} : EarlierWorkerExit(r, code)
        \/ EarlierMonitor(r)

SpecRelaunch == Init /\ [][NextRelaunch]_vars

\* ------------------------------------------------- claims on a second launch
\* the live worker processes of run r
LiveWorkers(r) ==
    (IF proc[r] = "alive" THEN 1 ELSE 0)
      + (IF earlier[r] # <<>> /\ earlier[r][1].proc = "alive" THEN 1 ELSE 0)

\* C34: at any time at most one live worker process exists per run.
C34_OneLiveWorker ==
    \A r \in OneRun : LiveWorkers(r) <= 1

\* C35: no step of the monitor thread of an earlier launch changes the
\* in-memory state of the run, run_state.json, the process registry or the
\* registered log handles.
C35_EarlierMonitorHarmless ==
    [][\A r \in OneRun :
          EarlierMonitor(r) =>
              /\ run_states' = run_states
              /\ state_file' = state_file
              /\ processes' = processes
              /\ stdout_files' = stdout_files]_vars

\* ------------------------------------------------- claims on failed starts
\* C36: a start_simulation call that raises after the already-running check
\* never leaves run_state.json at STARTING or RUNNING without a live worker,
\* and a start_simulation call that follows a call that raised that way is
\* not rejected as already running.
C36_FailedStartLeavesStartable ==
    [][\A r \in OneRun :
          /\ (CallMade(r) /\ Outcome(r) \notin {"started", "AlreadyRunning"}) =>
                ~(/\ state_file'[r] # <<>>
                  /\ state_file'[r][1].runner_status \in {"starting", "running"}
                  /\ proc'[r] # "alive")
          /\ (CallMade(r) /\ LastOutcome(r) \in MissingInput \cup {"LaunchFailure"}) =>
                Outcome(r) # "AlreadyRunning"]_vars

\* C38: whenever a run's runner_status is STOPPED or FAILED, in memory or in
\* run_state.json, its twitter_running and reddit_running flags are false.
C38_TerminalFlagsCleared ==
    \A r \in OneRun :
        /\ (run_states[r] # <<>> /\ St(r).runner_status \in {"stopped", "failed"}) =>
              \A p \in Platforms : ~St(r).running[p]
        /\ (state_file[r] # <<>> /\ state_file[r][1].runner_status \in {"stopped", "failed"}) =>
              \A p \in Platforms : ~state_file[r][1].running[p]

====
